---- MODULE Spec2Model ----
(***************************************************************************)
(* Literature Review Visualizer: record parser (ris_parser.py) and the     *)
(* classification engine (overlap_calculator.py).                          *)
(*                                                                         *)
(* Text is a sequence of one-character strings, so that the regular        *)
(* expressions, strip(), lower() and int() of the source are computed      *)
(* character by character.                                                 *)
(***************************************************************************)
EXTENDS Integers, Sequences, FiniteSets, TLC

(***************************************************************************)
(* Characters and the str methods the source uses                          *)
(***************************************************************************)
Upper ==
  <<"A","B","C","D","E","F","G","H","I","J","K","L","M",
    "N","O","P","Q","R","S","T","U","V","W","X","Y","Z">>

Lower ==
  <<"a","b","c","d","e","f","g","h","i","j","k","l","m",
    "n","o","p","q","r","s","t","u","v","w","x","y","z">>

Digits ==
  <<"0","1","2","3","4","5","6","7","8","9">>

UpperSet == {Upper[i] : i \in 1..Len(Upper)}

DigitSet == {Digits[i] : i \in 1..Len(Digits)}

SpaceSet == {" ", "\t", "\n", "\r", "\f"}

IndexOf(seq, c) == CHOOSE i \in 1..Len(seq) : seq[i] = c

IsUpperCh(c) == c \in UpperSet

IsSpace(c) == c \in SpaceSet

LowerCh(c) == IF c \in UpperSet THEN Lower[IndexOf(Upper, c)] ELSE c

StrLower(s) == [i \in 1..Len(s) |-> LowerCh(s[i])]

MaxOf(S) == CHOOSE x \in S : \A y \in S : y <= x

MinOf(S) == CHOOSE x \in S : \A y \in S : x <= y

FirstNonSpace(s) ==
  LET I == {i \in 1..Len(s) : ~IsSpace(s[i])}
  IN  IF I = {} THEN Len(s) + 1 ELSE MinOf(I)

LastNonSpace(s) ==
  LET I == {i \in 1..Len(s) : ~IsSpace(s[i])}
  IN  IF I = {} THEN 0 ELSE MaxOf(I)

Strip(s) == SubSeq(s, FirstNonSpace(s), LastNonSpace(s))

RStrip(s) == SubSeq(s, 1, LastNonSpace(s))

\* str.split(sep) for a one-character separator
RECURSIVE Split(_, _)
Split(s, sep) ==
  LET I == {i \in 1..Len(s) : s[i] = sep}
  IN  IF I = {} THEN <<s>>
      ELSE LET k == MinOf(I)
           IN  <<SubSeq(s, 1, k - 1)>> \o Split(SubSeq(s, k + 1, Len(s)), sep)

\* sep.join(parts)
RECURSIVE Join(_, _)
Join(parts, sep) ==
  IF parts = <<>> THEN <<>>
  ELSE IF Len(parts) = 1 THEN parts[1]
  ELSE parts[1] \o <<sep>> \o Join(Tail(parts), sep)

\* index of the last character of the maximal whitespace run starting at i
\* (i - 1 when there is none)
SpaceRunEnd(s, i) ==
  LET I == {k \in i..Len(s) : ~IsSpace(s[k])}
  IN  IF I = {} THEN Len(s) ELSE MinOf(I) - 1

\* [t.strip() for t in value.split(',') if t.strip()]
RECURSIVE StripNonEmpty(_)
StripNonEmpty(parts) ==
  IF parts = <<>> THEN <<>>
  ELSE IF Strip(parts[1]) = <<>> THEN StripNonEmpty(Tail(parts))
  ELSE <<Strip(parts[1])>> \o StripNonEmpty(Tail(parts))

CommaTerms(value) == StripNonEmpty(Split(value, ","))

(***************************************************************************)
(* int(value): decimal literal with optional sign and single underscores   *)
(***************************************************************************)
IsIntLiteral(v) ==
  LET s == Strip(v)
      body == IF s # <<>> /\ s[1] \in {"+", "-"} THEN Tail(s) ELSE s
  IN  /\ body # <<>>
      /\ \A i \in 1..Len(body) : body[i] \in DigitSet \cup {"_"}
      /\ body[1] # "_"
      /\ body[Len(body)] # "_"
      /\ \A i \in 1..(Len(body) - 1) : body[i] = "_" => body[i + 1] # "_"

RECURSIVE DigitsValue(_, _)
DigitsValue(s, acc) ==
  IF s = <<>> THEN acc
  ELSE IF s[1] = "_" THEN DigitsValue(Tail(s), acc)
  ELSE DigitsValue(Tail(s), 10 * acc + (IndexOf(Digits, s[1]) - 1))

IntValue(v) ==
  LET s == Strip(v)
  IN  IF s[1] = "-" THEN 0 - DigitsValue(Tail(s), 0)
      ELSE IF s[1] = "+" THEN DigitsValue(Tail(s), 0)
      ELSE DigitsValue(s, 0)

\* str(n)
RECURSIVE IntToStr(_)
IntToStr(n) ==
  IF n < 0 THEN <<"-">> \o IntToStr(0 - n)
  ELSE IF n < 10 THEN <<Digits[n + 1]>>
  ELSE IntToStr(n \div 10) \o <<Digits[(n % 10) + 1]>>

(***************************************************************************)
(* Values that are None, an integer or a string (Paper.id, Paper.year)     *)
(***************************************************************************)
NoneVal == [kind |-> "none", num |-> 0, str |-> <<>>]

IntVal(n) == [kind |-> "int", num |-> n, str |-> <<>>]

StrVal(s) == [kind |-> "str", num |-> 0, str |-> s]

\* Python truthiness of such a value: None, 0 and "" are falsy
Truthy(v) ==
  \/ v.kind = "int" /\ v.num # 0
  \/ v.kind = "str" /\ v.str # <<>>

\* try: int(value) except ValueError: value
IntOrStr(value) == IF IsIntLiteral(value) THEN IntVal(IntValue(value)) ELSE StrVal(value)

(***************************************************************************)
(* ris_parser.py: Paper and RISParser                                      *)
(***************************************************************************)
\* Paper.__init__; oid stands for the identity of the Python object
Paper(oid) ==
  [oid |-> oid, id |-> NoneVal, title |-> <<>>, year |-> NoneVal,
   abstract |-> <<>>, authors |-> <<>>, doi |-> <<>>,
   unique_search_terms |-> <<>>, branch_terms |-> <<>>, pdf_path |-> <<>>,
   database |-> <<>>, journal |-> <<>>, volume |-> <<>>, issue |-> <<>>,
   pages |-> <<>>, url |-> <<>>, keywords |-> <<>>]

\* open(..., 'r'): universal newlines turn "\r\n" and "\r" into "\n"
ReadText(s) ==
  IF \A i \in 1..Len(s) : s[i] # "\r" THEN s
  ELSE LET keep == {i \in 1..Len(s) : ~(s[i] = "\n" /\ i > 1 /\ s[i - 1] = "\r")}
           at(j) == CHOOSE i \in keep : Cardinality({k \in keep : k <= i}) = j
       IN  [j \in 1..Cardinality(keep) |-> IF s[at(j)] = "\r" THEN "\n" ELSE s[at(j)]]

\* Path(ris_file_path).stem: the file name without its last suffix
Stem(name) ==
  LET I == {i \in 2..Len(name) : name[i] = "."}
  IN  IF I = {} \/ MaxOf(I) = Len(name) THEN name ELSE SubSeq(name, 1, MaxOf(I) - 1)

\* RISParser._extract_database_from_filename
ExtractDatabaseFromFilename(name) == Split(Stem(name), "_")[1]

\* re.search(r'\d{4}', value): start of the first run of four digits, 0 if none
YearMatch(value) ==
  LET I == {i \in 1..(Len(value) - 3) : \A k \in 0..3 : value[i + k] \in DigitSet}
  IN  IF I = {} THEN 0 ELSE MinOf(I)

EndsWithER(s) == Len(s) >= 2 /\ s[Len(s) - 1] = "E" /\ s[Len(s)] = "R"

\* RISParser._set_field
SetField(paper, field_tag, raw) ==
  LET value == Strip(raw)
  IN  CASE field_tag = <<"T","I">> -> [paper EXCEPT !.title = value]
        [] field_tag = <<"P","Y">> ->
             IF YearMatch(value) # 0
             THEN [paper EXCEPT !.year =
                     IntVal(DigitsValue(SubSeq(value, YearMatch(value), YearMatch(value) + 3), 0))]
             ELSE paper
        [] field_tag = <<"A","B">> -> [paper EXCEPT !.abstract = value]
        [] field_tag = <<"A","U">> -> [paper EXCEPT !.authors = Append(@, value)]
        [] field_tag = <<"D","O">> -> [paper EXCEPT !.doi = value]
        [] field_tag = <<"N","1">> -> [paper EXCEPT !.unique_search_terms = CommaTerms(value)]
        [] field_tag = <<"R","N">> ->
             LET clean_value == IF EndsWithER(value)
                                THEN Strip(SubSeq(value, 1, Len(value) - 2))
                                ELSE value
             IN  [paper EXCEPT !.branch_terms = CommaTerms(clean_value)]
        [] field_tag = <<"L","1">> -> [paper EXCEPT !.pdf_path = value]
        [] field_tag = <<"T","2">> -> [paper EXCEPT !.journal = value]
        [] field_tag = <<"V","L">> -> [paper EXCEPT !.volume = value]
        [] field_tag = <<"I","S">> -> [paper EXCEPT !.issue = value]
        [] field_tag = <<"S","P">> -> [paper EXCEPT !.pages = value]
        [] field_tag = <<"U","R">> -> [paper EXCEPT !.url = value]
        [] field_tag = <<"K","W">> -> [paper EXCEPT !.keywords = Append(@, value)]
        [] field_tag = <<"I","D">> -> [paper EXCEPT !.id = IntOrStr(value)]
        [] field_tag = <<"L","B">> ->
             IF ~Truthy(paper.id) THEN [paper EXCEPT !.id = IntOrStr(value)] ELSE paper
        [] OTHER -> paper

\* re.match(r'^([A-Z0-9]{2,3})\s+-\s+(.+)$', line): groups 1 and 2,
\* tag = <<>> when the line does not match
NoMatch == [tag |-> <<>>, value |-> <<>>]

FieldMatch(line) ==
  LET T == {k \in 1..Len(line) : line[k] \notin (UpperSet \cup DigitSet)}
      n == IF T = {} THEN Len(line) ELSE MinOf(T) - 1
  IN  IF n \notin {2, 3} \/ (\E k \in 1..Len(line) : line[k] = "\n") THEN NoMatch
      ELSE LET a == SpaceRunEnd(line, n + 1)
           IN  IF a < n + 1 \/ a + 1 > Len(line) \/ line[a + 1] # "-" THEN NoMatch
               ELSE LET b == SpaceRunEnd(line, a + 2)
                    IN  IF b < a + 2 THEN NoMatch
                        ELSE IF b < Len(line)
                             THEN [tag |-> SubSeq(line, 1, n),
                                   value |-> SubSeq(line, b + 1, Len(line))]
                        ELSE IF b >= a + 3
                             THEN [tag |-> SubSeq(line, 1, n), value |-> <<line[b]>>]
                        ELSE NoMatch

\* the loop over the lines of RISParser._parse_record
RECURSIVE ParseLines(_, _, _, _)
ParseLines(lines, paper, current_field, current_value) ==
  IF lines = <<>>
  THEN IF current_field # <<>>
       THEN SetField(paper, current_field, Join(current_value, "\n"))
       ELSE paper
  ELSE LET line == RStrip(lines[1])
           m == FieldMatch(line)
       IN  IF line = <<>>
           THEN ParseLines(Tail(lines), paper, current_field, current_value)
           ELSE IF m.tag # <<>>
           THEN ParseLines(Tail(lines),
                           IF current_field # <<>>
                           THEN SetField(paper, current_field, Join(current_value, "\n"))
                           ELSE paper,
                           m.tag, <<m.value>>)
           ELSE ParseLines(Tail(lines), paper, current_field,
                           IF current_field # <<>>
                           THEN Append(current_value, line)
                           ELSE current_value)

\* RISParser._parse_record
ParseRecord(record, oid) ==
  ParseLines(Split(Strip(record), "\n"), Paper(oid), <<>>, <<>>)

\* variant: r'^ER\s+-$', no whitespace allowed after the dash
ERMatchEnd_NoTrailingSpace(s, i) ==
  IF ~(/\ (i = 1 \/ s[i - 1] = "\n")
       /\ i + 1 <= Len(s)
       /\ s[i] = "E"
       /\ s[i + 1] = "R")
  THEN 0
  ELSE LET a == SpaceRunEnd(s, i + 2)
       IN  IF a < i + 2 \/ a + 1 > Len(s) \/ s[a + 1] # "-" THEN 0
           ELSE IF a + 1 = Len(s) \/ s[a + 2] = "\n" THEN a + 1
           ELSE 0

\* end of the match of r'^ER\s+-\s*$' (re.MULTILINE) starting at i, 0 if none
ERMatchEnd(s, i) ==
  IF ~(/\ (i = 1 \/ s[i - 1] = "\n")
       /\ i + 1 <= Len(s)
       /\ s[i] = "E"
       /\ s[i + 1] = "R")
  THEN 0
  ELSE LET a == SpaceRunEnd(s, i + 2)
       IN  IF a < i + 2 \/ a + 1 > Len(s) \/ s[a + 1] # "-" THEN 0
           ELSE LET b == SpaceRunEnd(s, a + 2)
                    K == {k \in (a + 1)..(b - 1) : s[k + 1] = "\n"}
                IN  IF b = Len(s) THEN b
                    ELSE IF K = {} THEN 0
                    ELSE MaxOf(K)

\* re.split(r'^ER\s+-\s*$', content, flags=re.MULTILINE): the text from start
\* on, cut at the leftmost matches
RECURSIVE ReSplit(_, _)
ReSplit(s, start) ==
  LET M == {i \in start..Len(s) : s[i] = "E" /\ ERMatchEnd(s, i) # 0}
  IN  IF M = {} THEN <<SubSeq(s, start, Len(s))>>
      ELSE <<SubSeq(s, start, MinOf(M) - 1)>> \o ReSplit(s, ERMatchEnd(s, MinOf(M)) + 1)

SplitRecords(content) == ReSplit(content, 1)

\* f"paper_{id_counter}"
FallbackId(id_counter) == StrVal(<<"p","a","p","e","r","_">> \o IntToStr(id_counter))

\* variant: papers without a title are kept
RECURSIVE ParseRecords_KeepUntitled(_, _, _, _, _, _)
ParseRecords_KeepUntitled(records, k, database, pass, id_counter, papers) ==
  IF k > Len(records) THEN papers
  ELSE IF Strip(records[k]) = <<>>
  THEN ParseRecords_KeepUntitled(records, k + 1, database, pass, id_counter, papers)
  ELSE LET paper == ParseRecord(records[k], <<pass, k>>)
       IN  IF ~Truthy(paper.id)
           THEN ParseRecords_KeepUntitled(records, k + 1, database, pass, id_counter + 1,
                  Append(papers, [paper EXCEPT !.database = database,
                                               !.id = FallbackId(id_counter)]))
           ELSE ParseRecords_KeepUntitled(records, k + 1, database, pass, id_counter,
                  Append(papers, [paper EXCEPT !.database = database]))

\* the loop over the records of RISParser.parse; pass names the parse pass
RECURSIVE ParseRecords(_, _, _, _, _, _)
ParseRecords(records, k, database, pass, id_counter, papers) ==
  IF k > Len(records) THEN papers
  ELSE IF Strip(records[k]) = <<>>
  THEN ParseRecords(records, k + 1, database, pass, id_counter, papers)
  ELSE LET paper == ParseRecord(records[k], <<pass, k>>)
       IN  IF paper.title # <<>>
           THEN IF ~Truthy(paper.id)
                THEN ParseRecords(records, k + 1, database, pass, id_counter + 1,
                       Append(papers, [paper EXCEPT !.database = database,
                                                    !.id = FallbackId(id_counter)]))
                ELSE ParseRecords(records, k + 1, database, pass, id_counter,
                       Append(papers, [paper EXCEPT !.database = database]))
           ELSE ParseRecords(records, k + 1, database, pass, id_counter, papers)

\* RISParser(name).parse() on a file with the given bytes
Parse(name, bytes, pass) ==
  CHOOSE result \in
    {ParseRecords(records, 1, ExtractDatabaseFromFilename(name), pass, 1, <<>>) :
       records \in {SplitRecords(ReadText(bytes))}} : TRUE

(***************************************************************************)
(* Python dicts: insertion-ordered sequences of entries [k, v]             *)
(***************************************************************************)
DictHas(d, key) == \E i \in 1..Len(d) : d[i].k = key

DictIdx(d, key) == CHOOSE i \in 1..Len(d) : d[i].k = key

DictGet(d, key) == d[DictIdx(d, key)].v

DictKeys(d) == [i \in 1..Len(d) |-> d[i].k]

\* d[key] = value
DictSet(d, key, value) ==
  IF DictHas(d, key) THEN [d EXCEPT ![DictIdx(d, key)].v = value]
  ELSE Append(d, [k |-> key, v |-> value])

\* d.get(key, default)
DictGetOr(d, key, default) == IF DictHas(d, key) THEN DictGet(d, key) ELSE default

\* d[key].append(x) on a defaultdict(list)
DictAppend(d, key, x) == DictSet(d, key, Append(DictGetOr(d, key, <<>>), x))

\* d[outer][inner].append(x) on a defaultdict(lambda: defaultdict(list))
DictAppend2(d, outer, inner, x) ==
  DictSet(d, outer, DictAppend(DictGetOr(d, outer, <<>>), inner, x))

InSeq(x, seq) == \E i \in 1..Len(seq) : seq[i] = x

(***************************************************************************)
(* overlap_calculator.py: OverlapCalculator                                *)
(***************************************************************************)
NoFile == [name |-> <<>>, bytes |-> <<>>]

UNCATEGORIZED == <<"u","n","c","a","t","e","g","o","r","i","z","e","d">>

\* sum(1 for c in t if c.isupper())
UpperCount(t) == Cardinality({i \in 1..Len(t) : IsUpperCh(t[i])})

\* variant: the first variant seen, whatever its letter case
GetCanonicalTerm_FirstSeen(term_variants) == term_variants[1]

\* variant: max() keeping the last of the maximal variants
GetCanonicalTerm_LastMax(term_variants) ==
  term_variants[MaxOf({i \in 1..Len(term_variants) :
                         \A j \in 1..Len(term_variants) :
                           UpperCount(term_variants[j]) <= UpperCount(term_variants[i])})]

\* OverlapCalculator._get_canonical_term: max() keeps the first maximal variant
GetCanonicalTerm(term_variants) ==
  term_variants[MinOf({i \in 1..Len(term_variants) :
                         \A j \in 1..Len(term_variants) :
                           UpperCount(term_variants[j]) <= UpperCount(term_variants[i])})]

\* first pass, the loop over paper.branch_terms: variants is the dict
\* normalized term -> variants seen, of one query
RECURSIVE CollectTerms(_, _)
CollectTerms(branch_terms, variants) ==
  IF branch_terms = <<>> THEN variants
  ELSE LET branch_term == branch_terms[1]
           normalized == StrLower(branch_term)
           seen == DictGetOr(variants, normalized, <<>>)
       IN  CollectTerms(Tail(branch_terms),
                        IF InSeq(branch_term, seen)
                        THEN DictSet(variants, normalized, seen)
                        ELSE DictSet(variants, normalized, Append(seen, branch_term)))

\* first pass, the loop over the papers of one query
RECURSIVE CollectVariants(_, _)
CollectVariants(ps, variants) ==
  IF ps = <<>> THEN variants
  ELSE CollectVariants(Tail(ps), CollectTerms(ps[1].branch_terms, variants))

\* canonical_term_map[query_name]: normalized term -> canonical term
CanonicalTermMap(variants) ==
  [i \in 1..Len(variants) |-> [k |-> variants[i].k, v |-> GetCanonicalTerm(variants[i].v)]]

\* variant: the raw branch term is the grouping key
RECURSIVE FileUnderTerms_RawKey(_, _, _, _)
FileUnderTerms_RawKey(paper, branch_terms, canonical, buckets) ==
  IF branch_terms = <<>> THEN buckets
  ELSE FileUnderTerms_RawKey(paper, Tail(branch_terms), canonical,
                             DictAppend(buckets, branch_terms[1], paper))

\* second pass, the loop over paper.branch_terms: buckets is
\* papers_by_query_and_branch[query_name]
RECURSIVE FileUnderTerms(_, _, _, _)
FileUnderTerms(paper, branch_terms, canonical, buckets) ==
  IF branch_terms = <<>> THEN buckets
  ELSE LET branch_term == branch_terms[1]
           normalized == StrLower(branch_term)
           canonical_term == DictGetOr(canonical, normalized, branch_term)
       IN  FileUnderTerms(paper, Tail(branch_terms), canonical,
                          DictAppend(buckets, canonical_term, paper))

\* variant: every paper is also filed under "uncategorized"
FilePaper_AlwaysUncategorized(paper, canonical, buckets) ==
  DictAppend(FileUnderTerms(paper, paper.branch_terms, canonical, buckets),
             UNCATEGORIZED, paper)

\* second pass, one paper
FilePaper(paper, canonical, buckets) ==
  IF paper.branch_terms # <<>>
  THEN FileUnderTerms(paper, paper.branch_terms, canonical, buckets)
  ELSE DictAppend(buckets, UNCATEGORIZED, paper)

\* second pass, the loop over the papers of one query
RECURSIVE Organize(_, _, _)
Organize(ps, canonical, buckets) ==
  IF ps = <<>> THEN buckets
  ELSE Organize(Tail(ps), canonical, FilePaper(ps[1], canonical, buckets))

\* papers_by_query: the queries that have a file, each with its parsed papers;
\* the parse pass of a query is its position among the configured queries
RECURSIVE PapersByQuery(_, _)
PapersByQuery(qs, k) ==
  IF k > Len(qs) THEN <<>>
  ELSE IF qs[k].ris_file = NoFile THEN PapersByQuery(qs, k + 1)
  ELSE <<[k |-> qs[k].name, v |-> Parse(qs[k].ris_file.name, qs[k].ris_file.bytes, k)]>>
       \o PapersByQuery(qs, k + 1)

\* both passes over the papers of one query
OrganizeQuery(ps) ==
  CHOOSE buckets \in
    {Organize(ps, canonical, <<>>) :
       canonical \in {CanonicalTermMap(CollectVariants(ps, <<>>))}} : TRUE

\* papers_by_query_and_branch after the second pass; a query without papers
\* gets no entry
RECURSIVE OrganizeAll(_)
OrganizeAll(pbq) ==
  IF pbq = <<>> THEN <<>>
  ELSE IF pbq[1].v = <<>> THEN OrganizeAll(Tail(pbq))
  ELSE <<[k |-> pbq[1].k, v |-> OrganizeQuery(pbq[1].v)]>> \o OrganizeAll(Tail(pbq))

\* OverlapCalculator._normalize_text
NormalizeText(text) == IF text = <<>> THEN <<>> ELSE Strip(StrLower(text))

\* variant: titles only
RECURSIVE MatchPaper_TitleOnly(_, _)
MatchPaper_TitleOnly(item, existing) ==
  IF existing = <<>> THEN <<>>
  ELSE IF /\ NormalizeText(item.title) # <<>>
          /\ NormalizeText(existing[1].title) # <<>>
          /\ NormalizeText(item.title) = NormalizeText(existing[1].title)
       THEN <<existing[1]>>
  ELSE MatchPaper_TitleOnly(item, Tail(existing))

\* OverlapCalculator._match_paper: <<paper>> for a match, <<>> for None
RECURSIVE MatchPaper(_, _)
MatchPaper(item, existing) ==
  IF existing = <<>> THEN <<>>
  ELSE LET most_cited_title == NormalizeText(item.title)
           most_cited_doi == NormalizeText(item.doi)
           existing_title == NormalizeText(existing[1].title)
           existing_doi == NormalizeText(existing[1].doi)
       IN  IF /\ most_cited_title # <<>>
              /\ existing_title # <<>>
              /\ most_cited_title = existing_title
           THEN <<existing[1]>>
           ELSE IF /\ most_cited_doi # <<>>
                   /\ existing_doi # <<>>
                   /\ most_cited_doi = existing_doi
           THEN <<existing[1]>>
           ELSE MatchPaper(item, Tail(existing))

\* branch_term_counts[query_name]: bucket key -> number of papers
BranchTermCounts(buckets) ==
  [i \in 1..Len(buckets) |-> [k |-> buckets[i].k, v |-> Len(buckets[i].v)]]

\* the query whose buckets hold the paper: position in by_query, 0 if none;
\* `if target_query: break`, `if not target_query: continue`: a query whose
\* name is the empty string does not count as found
TargetQuery(by_query, paper) ==
  LET Q == {q \in 1..Len(by_query) :
              /\ by_query[q].k # <<>>
              /\ \E b \in 1..Len(by_query[q].v) : InSeq(paper, by_query[q].v[b].v)}
  IN  IF Q = {} THEN 0 ELSE MinOf(Q)

\* the first bucket key equal to the term after lowercasing, <<>> if none
MatchingCanonical(counts, branch_term) ==
  LET M == {i \in 1..Len(counts) : StrLower(counts[i].k) = StrLower(branch_term)}
  IN  IF M = {} THEN <<>> ELSE counts[MinOf(M)].k

\* variant: on equal counts the later tag of the item's list wins
RECURSIVE SelectBranchTerm_LastWins(_, _, _, _)
SelectBranchTerm_LastWins(branch_terms, counts, min_count, selected) ==
  IF branch_terms = <<>> THEN selected
  ELSE LET matching_canonical == MatchingCanonical(counts, branch_terms[1])
       IN  IF /\ matching_canonical # <<>>
              /\ (min_count = -1 \/ DictGet(counts, matching_canonical) <= min_count)
           THEN SelectBranchTerm_LastWins(Tail(branch_terms), counts,
                                 DictGet(counts, matching_canonical), matching_canonical)
           ELSE SelectBranchTerm_LastWins(Tail(branch_terms), counts, min_count, selected)

\* the loop choosing the branch term with the least papers; min_count = -1
\* stands for float('inf'), selected = <<>> for None
RECURSIVE SelectBranchTerm(_, _, _, _)
SelectBranchTerm(branch_terms, counts, min_count, selected) ==
  IF branch_terms = <<>> THEN selected
  ELSE LET matching_canonical == MatchingCanonical(counts, branch_terms[1])
       IN  IF /\ matching_canonical # <<>>
              /\ (min_count = -1 \/ DictGet(counts, matching_canonical) < min_count)
           THEN SelectBranchTerm(Tail(branch_terms), counts,
                                 DictGet(counts, matching_canonical), matching_canonical)
           ELSE SelectBranchTerm(Tail(branch_terms), counts, min_count, selected)

\* variant: a matched item none of whose tags names a bucket is filed under
\* its first tag
ProcessCurated_UnresolvedUnderFirstTag(item, existing, by_query, overlay) ==
  LET matched == MatchPaper(item, existing)
  IN  IF matched = <<>> THEN overlay
      ELSE IF item.branch_terms = <<>> THEN overlay
      ELSE LET target == TargetQuery(by_query, matched[1])
           IN  IF target = 0 THEN overlay
               ELSE LET selected == SelectBranchTerm(item.branch_terms,
                                      BranchTermCounts(by_query[target].v), -1, <<>>)
                    IN  DictAppend2(overlay, by_query[target].k,
                                    IF selected # <<>> THEN selected ELSE item.branch_terms[1],
                                    matched[1])

\* variant: the record of the curated file is filed, not the matched paper
ProcessCurated_FilesCuratedRecord(item, existing, by_query, overlay) ==
  LET matched == MatchPaper(item, existing)
  IN  IF matched = <<>> THEN overlay
      ELSE IF item.branch_terms = <<>> THEN overlay
      ELSE LET target == TargetQuery(by_query, matched[1])
           IN  IF target = 0 THEN overlay
               ELSE LET selected == SelectBranchTerm(item.branch_terms,
                                      BranchTermCounts(by_query[target].v), -1, <<>>)
                    IN  IF selected # <<>>
                        THEN DictAppend2(overlay, by_query[target].k, selected, item)
                        ELSE overlay

\* one iteration of the loop over the curated papers
ProcessCurated(item, existing, by_query, overlay) ==
  LET matched == MatchPaper(item, existing)
  IN  IF matched = <<>> THEN overlay
      ELSE IF item.branch_terms = <<>> THEN overlay
      ELSE LET target == TargetQuery(by_query, matched[1])
           IN  IF target = 0 THEN overlay
               ELSE LET selected == SelectBranchTerm(item.branch_terms,
                                      BranchTermCounts(by_query[target].v), -1, <<>>)
                    IN  IF selected # <<>>
                        THEN DictAppend2(overlay, by_query[target].k, selected, matched[1])
                        ELSE overlay

RECURSIVE ProcessAllCurated(_, _, _, _)
ProcessAllCurated(items, existing, by_query, overlay) ==
  IF items = <<>> THEN overlay
  ELSE ProcessAllCurated(Tail(items), existing, by_query,
                         ProcessCurated(items[1], existing, by_query, overlay))

(***************************************************************************)
(* State                                                                   *)
(***************************************************************************)
VARIABLES
  ris_file,   \* the export file given to RISParser: [name, bytes]
  papers,     \* the list RISParser.parse returned
  parse_pc,   \* "ready" before parse(), "done" after it returned
  queries,                            \* OverlapCalculator.queries: <<[name, ris_file]>>
  most_cited_file,                    \* find_newest_manual_grouping_file(), NoFile for None
  most_relevant_file,                 \* find_newest_most_relevant_file(), NoFile for None
  all_papers,                         \* OverlapCalculator.all_papers
  papers_by_query_and_branch,         \* query -> branch term -> papers
  databases,                          \* OverlapCalculator.databases
  most_cited_by_query_and_branch,     \* highlight overlay
  most_relevant_by_query_and_branch,  \* relevance overlay
  calc_pc,                            \* "new", "loaded", "cited", "relevant", "built", "drawn"
  hierarchy,                          \* what build_hierarchy returned
  nodes,                              \* "nodes" of what get_visualization_data returned
  edges,                              \* "edges" of what get_visualization_data returned
  ris_source_folder,                  \* RIS_SOURCE_FOLDER on disk: [exists, files]
  _papers_cache,                      \* app._papers_cache: [set, value], set FALSE for None
  _hierarchy_cache,                   \* app._hierarchy_cache
  _visualization_cache,               \* app._visualization_cache
  _load_error,                        \* app._load_error: [set, message, path]
  workers,                            \* how many requests the server handles at a time
  handler,                            \* per request handler: [pc, endpoint, paper_id, response, calculator]
  build_attempts                      \* builds begun since the caches were last cleared

parserVars == <<ris_file, papers, parse_pc>>

inputVars == <<queries, most_cited_file, most_relevant_file>>

calcVars ==
  <<all_papers, papers_by_query_and_branch, databases,
    most_cited_by_query_and_branch, most_relevant_by_query_and_branch, calc_pc>>

graphVars == <<hierarchy, nodes, edges>>

cacheVars == <<_papers_cache, _hierarchy_cache, _visualization_cache, _load_error>>

appVars == <<ris_source_folder, cacheVars, workers, handler, build_attempts>>

vars == <<parserVars, inputVars, calcVars, graphVars, appVars>>

(***************************************************************************)
(* Input files: a file is a sequence of chunks, a chunk is the lines of    *)
(* one record followed by a closing line                                   *)
(***************************************************************************)
MaxRecords == 3

TI == <<"T","I">>

FieldLine(tag, value) == tag \o <<" ", " ", "-", " ">> \o value

ERLine == <<"E","R"," "," ","-"," ">>

BareERLine == <<"E","R"," ">>

RecordBodies ==
  { <<FieldLine(<<"T","I">>, <<"a">>)>>,
    <<FieldLine(<<"A","U">>, <<"x">>), FieldLine(<<"T","I">>, <<>>)>>,
    <<FieldLine(<<"T","I">>, <<"b">>), <<"b","2">>, <<>>, FieldLine(<<"I","D">>, <<"5">>)>>,
    <<FieldLine(<<"T","I">>, <<"c">>), FieldLine(<<"I","D">>, <<"0">>),
      FieldLine(<<"L","B">>, <<"7">>)>>,
    <<FieldLine(<<"T","I">>, <<"e">>), FieldLine(<<"I","D">>, <<"p","a","p","e","r","_","1">>)>>,
    <<FieldLine(<<"T","I">>, <<"f">>), FieldLine(<<"L","B">>, <<"7">>),
      FieldLine(<<"I","D">>, <<"x">>)>> }

\* bodies closed by a line "ER " without the dash
BareBodies ==
  { <<FieldLine(<<"T","I">>, <<"h">>), FieldLine(<<"A","U">>, <<"y">>),
      FieldLine(<<"Z","Z">>, <<"z">>)>> }

Chunks ==
  {Append(b, ERLine) : b \in RecordBodies} \cup {Append(b, BareERLine) : b \in BareBodies}

RECURSIVE Flatten(_)
Flatten(ss) == IF ss = <<>> THEN <<>> ELSE ss[1] \o Flatten(Tail(ss))

\* the bytes of a file made of the given chunks, every line ended by "\n"
FileBytes(chunks) ==
  LET lines == Flatten(chunks)
  IN  Flatten([i \in 1..Len(lines) |-> Append(lines[i], "\n")])

SeqsUpTo(S, n) == UNION {[1..k -> S] : k \in 0..n}

ParserFileName == <<"p","m","_","q","1",".","r","i","s">>

ParserInputs == {[name |-> ParserFileName, bytes |-> FileBytes(cs)] : cs \in SeqsUpTo(Chunks, MaxRecords)}

(***************************************************************************)
(* The parser as a state machine                                           *)
(***************************************************************************)
\* the caches of load_data before a build
\* None, and a value a cache holds
None == [set |-> FALSE, value |-> <<>>]

Some(v) == [set |-> TRUE, value |-> v]

\* _load_error = None, and an error message: the text, and the path of
\* the file an exception names
NoError == [set |-> FALSE, message |-> "", path |-> <<>>]

Error(message, path) == [set |-> TRUE, message |-> message, path |-> path]

Handlers == {1, 2}

NoPaperId == <<>>

IdleHandler == [pc |-> "idle", endpoint |-> "none", paper_id |-> NoPaperId, response |-> "none", calculator |-> "none"]

\* the module globals of app.py as the import leaves them
ColdCaches ==
  /\ _papers_cache = None
  /\ _hierarchy_cache = None
  /\ _visualization_cache = None
  /\ _load_error = NoError

\* the calculator on its own: no service around it
NotServing ==
  /\ ris_source_folder = [exists |-> FALSE, files |-> <<>>]
  /\ ColdCaches
  /\ workers = 0
  /\ handler = [h \in Handlers |-> IdleHandler]
  /\ build_attempts = 0

NotBuilt ==
  /\ hierarchy = <<>>
  /\ nodes = <<>>
  /\ edges = <<>>

\* OverlapCalculator.__init__
InitCalculator ==
  /\ all_papers = <<>>
  /\ papers_by_query_and_branch = <<>>
  /\ databases = {}
  /\ most_cited_by_query_and_branch = <<>>
  /\ most_relevant_by_query_and_branch = <<>>
  /\ calc_pc = "new"

InitParse ==
  /\ ris_file \in ParserInputs
  /\ papers = <<>>
  /\ parse_pc = "ready"
  /\ queries = <<>>
  /\ most_cited_file = NoFile
  /\ most_relevant_file = NoFile
  /\ InitCalculator
  /\ NotBuilt
  /\ NotServing

\* RISParser(ris_file).parse()
ParseFile ==
  /\ parse_pc = "ready"
  /\ papers' = Parse(ris_file.name, ris_file.bytes, 0)
  /\ parse_pc' = "done"
  /\ UNCHANGED <<appVars, ris_file, inputVars, calcVars, graphVars>>

NextParse == ParseFile

SpecParse == InitParse /\ [][NextParse]_vars

(***************************************************************************)
(* overlap_calculator.py: build_hierarchy and get_visualization_data       *)
(***************************************************************************)
LowerSet == {Lower[i] : i \in 1..Len(Lower)}

UpperCh(c) == IF c \in LowerSet THEN Upper[IndexOf(Lower, c)] ELSE c

StrUpper(s) == [i \in 1..Len(s) |-> UpperCh(s[i])]

\* sub in s
Contains(s, sub) ==
  \E i \in 0..(Len(s) - Len(sub)) : SubSeq(s, i + 1, i + Len(sub)) = sub

StartsWith(s, prefix) ==
  Len(s) >= Len(prefix) /\ SubSeq(s, 1, Len(prefix)) = prefix

\* the characters of the model in code point order
CodePoints ==
  <<"\t", "\n", "\f", "\r", " ", ",", "-", ".">> \o Digits \o Upper \o <<"_">> \o Lower

\* a < b on str
StrLess(a, b) ==
  \E i \in 1..(Len(b)) :
    /\ i <= Len(a) + 1
    /\ SubSeq(a, 1, i - 1) = SubSeq(b, 1, i - 1)
    /\ \/ i = Len(a) + 1
       \/ IndexOf(CodePoints, a[i]) < IndexOf(CodePoints, b[i])

RECURSIVE SumSeq(_)
SumSeq(s) == IF s = <<>> THEN 0 ELSE s[1] + SumSeq(Tail(s))

\* Paper.to_dict: every field of the paper; the identity of the object is
\* not part of it
ToDict(p) == [f \in (DOMAIN p) \ {"oid"} |-> p[f]]

ToDicts(ps) == [i \in 1..Len(ps) |-> ToDict(ps[i])]

\* variant: a query without a source file is filed under a database of
\* its own
RECURSIVE BuildHierarchyFrom_UnknownDatabase(_, _, _, _)
BuildHierarchyFrom_UnknownDatabase(qs, k, by_query, hier) ==
  IF k > Len(qs) THEN hier
  ELSE LET database == IF qs[k].ris_file = NoFile THEN <<"u", "n", "k", "n", "o", "w", "n">>
                       ELSE ExtractDatabaseFromFilename(qs[k].ris_file.name)
           branch_terms == DictGetOr(by_query, qs[k].name, <<>>)
           entry == [i \in 1..Len(branch_terms) |->
                       [k |-> branch_terms[i].k, v |-> ToDicts(branch_terms[i].v)]]
       IN  BuildHierarchyFrom_UnknownDatabase(qs, k + 1, by_query,
             DictSet(hier, database,
                     DictSet(DictGetOr(hier, database, <<>>), qs[k].name, entry)))

\* OverlapCalculator.build_hierarchy, the loop over self.queries from the
\* k-th query on
RECURSIVE BuildHierarchyFrom(_, _, _, _)
BuildHierarchyFrom(qs, k, by_query, hier) ==
  IF k > Len(qs) THEN hier
  ELSE LET database == IF qs[k].ris_file = NoFile THEN <<>>
                       ELSE ExtractDatabaseFromFilename(qs[k].ris_file.name)
           branch_terms == DictGetOr(by_query, qs[k].name, <<>>)
           entry == [i \in 1..Len(branch_terms) |->
                       [k |-> branch_terms[i].k, v |-> ToDicts(branch_terms[i].v)]]
       IN  IF database = <<>> THEN BuildHierarchyFrom(qs, k + 1, by_query, hier)
           ELSE BuildHierarchyFrom(qs, k + 1, by_query,
                  DictSet(hier, database,
                          DictSet(DictGetOr(hier, database, <<>>), qs[k].name, entry)))

BuildHierarchyOf(qs, by_query) == BuildHierarchyFrom(qs, 1, by_query, <<>>)

\* layout constants
database_x == 50

query_x_offset == 300

branch_x_offset == 300

green_x_offset == 300

min_edge_gap == 18

base_node_height == 80

chars_per_line == 25

line_height == 25

database_y_spacing == 600

query_y_spacing == 400

first_database_y == 100

nlp_database_x == -100

nlp_query_shift == 200

nlp_query_x == 240

uncategorized_rise == 500

aggregate_x_offset == 300

waypoint_rise == 50

waypoint_overshoot == 400

\* vertical coordinates are counted in halves, total_height / 2 being a
\* multiple of one half
Halves(n) == 2 * n

NodeTypes ==
  {"database", "query", "branch", "mostCited", "uncategorized",
   "mostCitedAggregate", "mostRelevantAggregate"}

TypeText(node_type) ==
  CASE node_type = "database" -> <<"d","a","t","a","b","a","s","e">>
    [] node_type = "query" -> <<"q","u","e","r","y">>
    [] node_type = "branch" -> <<"b","r","a","n","c","h">>
    [] node_type = "mostCited" -> <<"m","o","s","t","C","i","t","e","d">>
    [] node_type = "uncategorized" -> <<"u","n","c","a","t","e","g","o","r","i","z","e","d">>
    [] node_type = "mostCitedAggregate" -> <<"m","o","s","t","C","i","t","e","d","A","g","g","r","e","g","a","t","e">>
    [] node_type = "mostRelevantAggregate" -> <<"m","o","s","t","R","e","l","e","v","a","n","t","A","g","g","r","e","g","a","t","e">>

\* variant: the counters stand where an earlier build left them
NodeIdCounter_KeptFromEarlierBuild == [t \in NodeTypes |-> 1]

\* node_id_counter at the start of a build
NodeIdCounter == [t \in NodeTypes |-> 0]

\* get_next_id: the id the n-th call for the type returns after the counter
\* stood at counter[node_type]
NextId(counter, node_type, n) ==
  TypeText(node_type) \o <<"_">> \o IntToStr(counter[node_type] + n)

Advance(counter, node_type, n) == [counter EXCEPT ![node_type] = counter[node_type] + n]

\* variant: every label is taken to fit on one line
EstimateNodeHeight_OneLine(label) == base_node_height

\* estimate_node_height
EstimateNodeHeight(label) ==
  LET lines == MaxOf({1, (Len(label) \div chars_per_line) + 1})
  IN  base_node_height + (lines - 1) * line_height

NLP == <<"N","L","P">>

EXTRACTION == <<"E","X","T","R","A","C","T","I","O","N">>

AndPrefix == <<"A","N","D"," ">>

IsNlpExtraction(name) ==
  Contains(StrUpper(name), NLP) /\ Contains(StrUpper(name), EXTRACTION)

\* f"AND {clean_branch_term}"
BranchLabel(branch_term) ==
  LET stripped == Strip(branch_term)
      clean_branch_term ==
        IF StartsWith(StrUpper(stripped), AndPrefix)
        THEN Strip(SubSeq(stripped, 5, Len(stripped)))
        ELSE stripped
  IN  AndPrefix \o clean_branch_term

\* variant: the entries in the order of the dict, not sorted
BranchTermsList_InsertionOrder(branch_terms) ==
  LET NotUncategorized(e) == e.k # UNCATEGORIZED
  IN  SelectSeq(branch_terms, NotUncategorized)

\* sorted(branch_terms_filtered.items(), key=lambda x: x[0].lower()): the
\* sort is stable
BranchTermsList(branch_terms) ==
  LET NotUncategorized(e) == e.k # UNCATEGORIZED
      filtered == SelectSeq(branch_terms, NotUncategorized)
      n == Len(filtered)
      Before(j, i) ==
        \/ StrLess(StrLower(filtered[j].k), StrLower(filtered[i].k))
        \/ StrLower(filtered[j].k) = StrLower(filtered[i].k) /\ j < i
      Rank(i) == Cardinality({j \in 1..n : Before(j, i)}) + 1
  IN  [r \in 1..n |-> filtered[CHOOSE i \in 1..n : Rank(i) = r]]

NoData ==
  [label |-> <<>>, database |-> <<>>, query_name |-> <<>>, branch_term |-> <<>>,
   has_papers |-> FALSE, papers |-> <<>>, paper_count |-> 0, flag |-> "none"]

\* a node: data holds the keys of the node's "data" dict, the absent ones
\* left as in NoData; flag names the key set to True, if any
Node(id, type, x, y, data) ==
  [id |-> id, type |-> type, position |-> [x |-> x, y_halves |-> y], data |-> data]

WithPapers(data, ps) ==
  [data EXCEPT !.has_papers = TRUE, !.papers = ToDicts(ps), !.paper_count = Len(ps)]

Edge(source, target, type, waypoints) ==
  [id |-> source \o <<"-">> \o target, source |-> source, target |-> target,
   type |-> type, waypoints |-> waypoints]

StraightEdge(source, target) == Edge(source, target, "straight", <<>>)

OverlapGroupLabel == <<"M","o","s","t"," ","c","i","t","e","d"," ","(","o","r"," ","o","f"," ","i","n","t","e","r","e","s","t",")">>

MostRelevantLabel == <<"M","o","s","t"," ","r","e","l","e","v","a","n","t">>

FoundOutsideLabel == <<"F","o","u","n","d"," ","o","u","t","s","i","d","e"," ","s","e","a","r","c","h">>

\* the blue nodes of one query: one per entry of branch_terms_list, stacked
\* from start_y with each node's estimated height and the gap between them
BlueNodes(self, query_name, branch_terms_list, branch_x, start_y, counter) ==
  LET heights == [i \in 1..Len(branch_terms_list) |->
                    EstimateNodeHeight(BranchLabel(branch_terms_list[i].k))]
  IN  [i \in 1..Len(branch_terms_list) |->
         LET branch_term == branch_terms_list[i].k
             all_branch_papers ==
               DictGetOr(DictGetOr(self.papers_by_query_and_branch, query_name, <<>>),
                         branch_term, <<>>)
             branch_y == start_y + Halves(SumSeq(SubSeq(heights, 1, i - 1))
                                          + (i - 1) * min_edge_gap)
         IN  Node(NextId(counter, "branch", i), "branchTerm", branch_x, branch_y,
                  WithPapers([NoData EXCEPT !.label = BranchLabel(branch_term),
                                            !.branch_term = branch_term,
                                            !.query_name = query_name],
                             all_branch_papers))]

\* the entries of the highlight overlay of the query that get a green node:
\* those with papers whose key has a blue node
GreenEntries(self, query_name, branch_terms_list) ==
  LET most_cited_papers == DictGetOr(self.most_cited_by_query_and_branch, query_name, <<>>)
      HasBlue(e) ==
        /\ e.v # <<>>
        /\ \E i \in 1..Len(branch_terms_list) : branch_terms_list[i].k = e.k
  IN  SelectSeq(most_cited_papers, HasBlue)

BlueOf(blue, branch_term) ==
  blue[CHOOSE i \in 1..Len(blue) : blue[i].data.branch_term = branch_term]

GreenNodes(green_entries, blue, counter) ==
  [j \in 1..Len(green_entries) |->
     LET blue_node == BlueOf(blue, green_entries[j].k)
     IN  Node(NextId(counter, "mostCited", j), "overlapGroup",
              blue_node.position.x + green_x_offset, blue_node.position.y_halves,
              WithPapers([NoData EXCEPT !.label = OverlapGroupLabel], green_entries[j].v))]

\* the variables of one iteration of the loop over the databases, after the
\* database node was made: the graph so far, the layout of the database and
\* what is tracked for the aggregate nodes
StartDatabase(g, database_name, n_queries, current_database_y) ==
  LET is_nlp_extraction == IsNlpExtraction(database_name)
      database_x_pos == IF is_nlp_extraction THEN nlp_database_x ELSE database_x
      database_node_id == NextId(g.counter, "database", 1)
  IN  [nodes |-> Append(g.nodes,
                   Node(database_node_id, "database", database_x_pos,
                        Halves(current_database_y),
                        [NoData EXCEPT !.label = StrUpper(database_name),
                                       !.database = database_name,
                                       !.flag = IF is_nlp_extraction
                                                THEN "is_nlp_extraction" ELSE "none"])),
       edges |-> g.edges,
       counter |-> Advance(g.counter, "database", 1),
       database_node_id |-> database_node_id,
       database_x_pos |-> database_x_pos,
       database_y |-> Halves(current_database_y),
       current_database_y |-> current_database_y,
       query_x |-> IF is_nlp_extraction
                   THEN database_x_pos + query_x_offset - nlp_query_shift
                   ELSE database_x_pos + query_x_offset,
       \* database_y - (len(queries) - 1) * query_y_spacing / 2, in halves
       query_start_y |-> Halves(current_database_y) - (n_queries - 1) * query_y_spacing,
       n_queries |-> n_queries,
       all_green_node_ids |-> <<>>,
       all_most_cited_papers_for_db |-> <<>>,
       max_green_x |-> 0,
       has_query_node |-> FALSE, query_node_x |-> 0, query_node_y |-> 0,
       query_node_id |-> <<>>, query_y |-> 0, blue |-> <<>>,
       all_uncategorized_papers |-> <<>>,
       has_uncategorized |-> FALSE, uncategorized_node_id |-> <<>>,
       uncategorized_x |-> 0, uncategorized_y |-> 0,
       has_orange |-> FALSE, orange_node_id |-> <<>>,
       orange_node_x |-> 0, orange_node_y |-> 0]

\* the query node and the edge from the database node
AddQueryNode(st, query_name, query_idx) ==
  LET query_node_id == NextId(st.counter, "query", 1)
      query_y == st.query_start_y + Halves(query_idx * query_y_spacing)
      query_x_pos == IF IsNlpExtraction(query_name) THEN nlp_query_x ELSE st.query_x
      first == query_idx = 0 \/ st.n_queries = 1
  IN  [st EXCEPT
         !.nodes = Append(@, Node(query_node_id, "query", query_x_pos, query_y,
                                  [NoData EXCEPT !.label = query_name,
                                                 !.query_name = query_name])),
         !.edges = Append(@, StraightEdge(st.database_node_id, query_node_id)),
         !.counter = Advance(@, "query", 1),
         !.query_node_id = query_node_id,
         !.query_y = query_y,
         !.blue = <<>>,
         !.has_query_node = @ \/ first,
         !.query_node_x = IF first THEN query_x_pos ELSE @,
         !.query_node_y = IF first THEN query_y ELSE @]

\* start_y = query_y - total_height / 2, in halves
StartY(query_y, branch_terms_list) ==
  LET heights == [i \in 1..Len(branch_terms_list) |->
                    EstimateNodeHeight(BranchLabel(branch_terms_list[i].k))]
      total_height == SumSeq(heights) + (Len(heights) - 1) * min_edge_gap
  IN  query_y - total_height

\* the blue nodes of the query and the edges from the query node
AddBlueNodes(self, st, query_name, branch_terms_list) ==
  IF branch_terms_list = <<>> THEN st
  ELSE LET blue == BlueNodes(self, query_name, branch_terms_list,
                             st.query_x + branch_x_offset,
                             StartY(st.query_y, branch_terms_list), st.counter)
       IN  [st EXCEPT
              !.nodes = @ \o blue,
              !.edges = @ \o [i \in 1..Len(blue) |->
                                StraightEdge(st.query_node_id, blue[i].id)],
              !.counter = Advance(@, "branch", Len(blue)),
              !.blue = blue]

\* the green nodes of the query and the edges from their blue nodes; made
\* only when the query has a blue node
AddGreenNodes(self, st, query_name, branch_terms_list) ==
  IF branch_terms_list = <<>> THEN st
  ELSE LET green_entries == GreenEntries(self, query_name, branch_terms_list)
           green == GreenNodes(green_entries, st.blue, st.counter)
       IN  [st EXCEPT
              !.nodes = @ \o green,
              !.edges = @ \o [j \in 1..Len(green) |->
                                StraightEdge(BlueOf(st.blue, green_entries[j].k).id,
                                             green[j].id)],
              !.counter = Advance(@, "mostCited", Len(green)),
              !.all_green_node_ids = @ \o [j \in 1..Len(green) |-> green[j].id],
              !.all_most_cited_papers_for_db =
                 @ \o Flatten([j \in 1..Len(green_entries) |-> green_entries[j].v]),
              !.max_green_x = MaxOf({@} \cup {green[j].position.x : j \in 1..Len(green)})]

\* one iteration of the loop over the queries of a database
ProcessQuery(self, st, query_name, branch_terms, query_idx) ==
  AddGreenNodes(self,
    AddBlueNodes(self, AddQueryNode(st, query_name, query_idx),
                 query_name, BranchTermsList(branch_terms)),
    query_name, BranchTermsList(branch_terms))

RECURSIVE ProcessQueries(_, _, _, _)
ProcessQueries(self, st, queries_of_db, query_idx) ==
  IF query_idx >= Len(queries_of_db) THEN st
  ELSE \* the state is computed before the next iteration starts
       CHOOSE r \in
         {ProcessQueries(self, next, queries_of_db, query_idx + 1) :
            next \in {ProcessQuery(self, st, queries_of_db[query_idx + 1].k,
                                   queries_of_db[query_idx + 1].v, query_idx)}} :
         TRUE

\* variant: every paper is kept, whatever its identifier
Deduplicate_KeepAll(ps, seen_paper_ids, unique) == unique \o ps

\* the loop removing duplicates by paper id; a paper whose id is falsy is
\* always appended
RECURSIVE Deduplicate(_, _, _)
Deduplicate(ps, seen_paper_ids, unique) ==
  IF ps = <<>> THEN unique
  ELSE LET paper_id == ps[1].id
       IN  IF Truthy(paper_id) /\ paper_id \notin seen_paper_ids
           THEN Deduplicate(Tail(ps), seen_paper_ids \cup {paper_id}, Append(unique, ps[1]))
           ELSE IF ~Truthy(paper_id)
           THEN Deduplicate(Tail(ps), seen_paper_ids, Append(unique, ps[1]))
           ELSE Deduplicate(Tail(ps), seen_paper_ids, unique)

\* the non-empty buckets of the relevance overlay of the queries of a database
AllMostRelevantPapersForDb(self, queries_of_db) ==
  Flatten([q \in 1..Len(queries_of_db) |->
    LET most_relevant_papers ==
          DictGetOr(self.most_relevant_by_query_and_branch, queries_of_db[q].k, <<>>)
    IN  Flatten([b \in 1..Len(most_relevant_papers) |-> most_relevant_papers[b].v])])

AllUncategorizedPapers(self, queries_of_db) ==
  Flatten([q \in 1..Len(queries_of_db) |->
    DictGetOr(DictGetOr(self.papers_by_query_and_branch, queries_of_db[q].k, <<>>),
              UNCATEGORIZED, <<>>)])

\* variant: no edge from the purple node
OrangeEdges_GreenOnly(all_green_node_ids, has_uncategorized, uncategorized_node_id, orange_node_id, waypoints) ==
  [j \in 1..Len(all_green_node_ids) |-> StraightEdge(all_green_node_ids[j], orange_node_id)]

\* the edges into the orange node: one from every green node of the
\* database, and one from the purple node when there is one
OrangeEdges(all_green_node_ids, has_uncategorized, uncategorized_node_id, orange_node_id, waypoints) ==
  [j \in 1..Len(all_green_node_ids) |-> StraightEdge(all_green_node_ids[j], orange_node_id)]
  \o (IF has_uncategorized
      THEN <<Edge(uncategorized_node_id, orange_node_id, "waypoint", waypoints)>>
      ELSE <<>>)

\* variant: the edge is made whether or not there is an orange node
RedEdges_Unguarded(has_orange, orange_node_id, red_node_id) ==
  <<StraightEdge(orange_node_id, red_node_id)>>

\* the edge into the red node: from the orange node, if there is one
RedEdges(has_orange, orange_node_id, red_node_id) ==
  IF has_orange THEN <<StraightEdge(orange_node_id, red_node_id)>> ELSE <<>>

\* the purple node of the database
AddUncategorizedNode(self, st, queries_of_db) ==
  LET all_uncategorized_papers == AllUncategorizedPapers(self, queries_of_db)
      uncategorized_node_id == NextId(st.counter, "uncategorized", 1)
      uncategorized_y == Halves(st.current_database_y - uncategorized_rise)
  IN  IF all_uncategorized_papers = <<>> THEN st
      ELSE [st EXCEPT
              !.nodes = Append(@,
                 Node(uncategorized_node_id, "database", st.database_x_pos, uncategorized_y,
                      WithPapers([NoData EXCEPT !.label = FoundOutsideLabel,
                                                !.database = UNCATEGORIZED,
                                                !.flag = "is_uncategorized"],
                                 all_uncategorized_papers))),
              !.counter = Advance(@, "uncategorized", 1),
              !.all_uncategorized_papers = all_uncategorized_papers,
              !.has_uncategorized = TRUE,
              !.uncategorized_node_id = uncategorized_node_id,
              !.uncategorized_x = st.database_x_pos,
              !.uncategorized_y = uncategorized_y]

\* the way of the edge from the purple node around the other nodes
Waypoints(uncategorized_x, uncategorized_y, orange_node_x, orange_node_y) ==
  LET waypoint_up_y == uncategorized_y - Halves(waypoint_rise)
      waypoint_right_x == orange_node_x + waypoint_overshoot
      waypoint_down_y == orange_node_y - Halves(waypoint_rise)
  IN  <<[x |-> uncategorized_x, y_halves |-> waypoint_up_y],
        [x |-> waypoint_right_x, y_halves |-> waypoint_up_y],
        [x |-> waypoint_right_x, y_halves |-> waypoint_down_y],
        [x |-> orange_node_x, y_halves |-> waypoint_down_y]>>

\* the orange node of the database and the edges into it
AddOrangeNode(st) ==
  LET unique_most_cited_papers ==
        Deduplicate(st.all_most_cited_papers_for_db \o st.all_uncategorized_papers, {}, <<>>)
      orange_node_id == NextId(st.counter, "mostCitedAggregate", 1)
      orange_node_x == IF st.max_green_x > 0 THEN st.max_green_x + aggregate_x_offset
                       ELSE st.query_x + branch_x_offset + green_x_offset + aggregate_x_offset
      orange_node_y == IF st.has_query_node THEN st.query_node_y ELSE st.database_y
  IN  IF ~(st.all_green_node_ids # <<>> \/ st.has_uncategorized) THEN st
      ELSE IF unique_most_cited_papers = <<>> THEN st
      ELSE [st EXCEPT
              !.nodes = Append(@,
                 Node(orange_node_id, "overlapGroup", orange_node_x, orange_node_y,
                      WithPapers([NoData EXCEPT !.label = OverlapGroupLabel,
                                                !.flag = "is_most_cited_aggregate"],
                                 unique_most_cited_papers))),
              !.edges = @ \o OrangeEdges(st.all_green_node_ids, st.has_uncategorized,
                                         st.uncategorized_node_id, orange_node_id,
                                         Waypoints(st.uncategorized_x, st.uncategorized_y,
                                                   orange_node_x, orange_node_y)),
              !.counter = Advance(@, "mostCitedAggregate", 1),
              !.has_orange = TRUE,
              !.orange_node_id = orange_node_id,
              !.orange_node_x = orange_node_x,
              !.orange_node_y = orange_node_y]

\* the red node of the database and the edge into it
AddRedNode(self, st, queries_of_db) ==
  LET all_most_relevant_papers_for_db == AllMostRelevantPapersForDb(self, queries_of_db)
      unique_most_relevant_papers == Deduplicate(all_most_relevant_papers_for_db, {}, <<>>)
      red_node_id == NextId(st.counter, "mostRelevantAggregate", 1)
      red_node_x == IF st.has_orange THEN st.orange_node_x + aggregate_x_offset
                    ELSE IF st.has_query_node THEN st.query_node_x + aggregate_x_offset
                    ELSE st.database_x_pos + aggregate_x_offset
      red_node_y == IF st.has_orange THEN st.orange_node_y
                    ELSE IF st.has_query_node THEN st.query_node_y
                    ELSE st.database_y
  IN  IF all_most_relevant_papers_for_db = <<>> THEN st
      ELSE IF unique_most_relevant_papers = <<>> THEN st
      ELSE [st EXCEPT
              !.nodes = Append(@,
                 Node(red_node_id, "overlapGroup", red_node_x, red_node_y,
                      WithPapers([NoData EXCEPT !.label = MostRelevantLabel,
                                                !.flag = "is_most_relevant_aggregate"],
                                 unique_most_relevant_papers))),
              !.edges = @ \o RedEdges(st.has_orange, st.orange_node_id, red_node_id),
              !.counter = Advance(@, "mostRelevantAggregate", 1)]

\* one iteration of the loop over the databases of the hierarchy; g carries
\* nodes, edges and counter
ProcessDatabase(self, g, database_name, queries_of_db, current_database_y) ==
  LET st == AddRedNode(self,
              AddOrangeNode(
                AddUncategorizedNode(self,
                  ProcessQueries(self,
                    StartDatabase(g, database_name, Len(queries_of_db), current_database_y),
                    queries_of_db, 0),
                  queries_of_db)),
              queries_of_db)
  IN  [nodes |-> st.nodes, edges |-> st.edges, counter |-> st.counter]

RECURSIVE ProcessDatabases(_, _, _, _)
ProcessDatabases(self, g, hier, d) ==
  IF d > Len(hier) THEN g
  ELSE \* the graph so far is computed before the next iteration starts
       CHOOSE r \in
         {ProcessDatabases(self, next, hier, d + 1) :
            next \in {ProcessDatabase(self, g, hier[d].k, hier[d].v,
                                      first_database_y + (d - 1) * database_y_spacing)}} :
         TRUE

\* OverlapCalculator.get_visualization_data; self holds the three maps of
\* the calculator the function reads
GetVisualizationDataOf(self, hier) ==
  LET g == ProcessDatabases(self, [nodes |-> <<>>, edges |-> <<>>, counter |-> NodeIdCounter],
                            hier, 1)
  IN  [nodes |-> g.nodes, edges |-> g.edges]

(***************************************************************************)
(* The calculator as a state machine, in the order load_data calls it      *)
(***************************************************************************)
MaxPapers == 2

MaxCurated == 1

RecordText(title, doi, rn) ==
  <<FieldLine(TI, title)>>
  \o (IF doi = <<>> THEN <<>> ELSE <<FieldLine(<<"D","O">>, doi)>>)
  \o (IF rn = <<>> THEN <<>> ELSE <<FieldLine(<<"R","N">>, rn)>>)
  \o <<ERLine>>

\* records whose branch terms are case variants of one another
CanonRecords ==
  { RecordText(<<"t","1">>, <<>>, <<"c","t">>),
    RecordText(<<"t","2">>, <<>>, <<"C","T">>),
    RecordText(<<"t","3">>, <<>>, <<"C","t">>),
    RecordText(<<"t","4">>, <<>>, <<"c","T">>),
    RecordText(<<"t","5">>, <<>>, <<"c","t",","," ","C","T">>),
    RecordText(<<"t","6">>, <<>>, <<"c","t",",","c","t">>),
    RecordText(<<"t","7">>, <<>>, <<>>),
    RecordText(<<"t","8">>, <<>>, <<"U","n","c","a","t","e","g","o","r","i","z","e","d">>),
    RecordText(<<"t","9">>, <<>>, <<"m","r",","," ">> \o UNCATEGORIZED),
    RecordText(<<"t","0">>, <<>>, <<"c","T",","," ","C","t">>) }

\* records whose titles and DOIs agree up to letter case
MatchRecords ==
  { RecordText(<<"A","b">>, <<"d","1">>, <<"c","t">>),
    RecordText(<<"a","b">>, <<>>, <<"C","T",",","m","r">>),
    RecordText(<<"x">>, <<"D","1">>, <<"m","r">>),
    RecordText(<<"y">>, <<"d","2">>, <<>>),
    RecordText(<<"z">>, <<>>, <<"c","t">>) }

CuratedRecords ==
  { RecordText(<<"A","B">>, <<>>, <<"c","t">>),
    RecordText(<<"q">>, <<"D","1">>, <<"m","r",",","C","T">>),
    RecordText(<<"y">>, <<"d","1">>, <<"c","t">>),
    RecordText(<<"n">>, <<"z","z">>, <<"c","t">>),
    RecordText(<<"z">>, <<>>, <<>>),
    RecordText(<<"q">>, <<>>, <<"m","r">>) }

\* a curated file whose first three records are filed nowhere (no paper
\* agrees, no tags, no tag names a bucket) and whose last record is filed
SkippedThenFiled ==
  << RecordText(<<"n">>, <<"z","z">>, <<"c","t">>),
     RecordText(<<"A","b">>, <<>>, <<>>),
     RecordText(<<"a","b">>, <<>>, <<"z","z">>),
     RecordText(<<"X">>, <<"d","2">>, <<"M","R",",","c","t">>) >>

File(name, records) == [name |-> name, bytes |-> FileBytes(records)]

Q1Name == <<"p","m","_","a",".","t","x","t">>

Q2Name == <<"p","m","_","b",".","t","x","t">>

CitedName == <<"m","o","s","t","_","c","i","t","e","d",".","t","x","t">>

RelevantName == <<"m","o","s","t","_","r","e","l","e","v","a","n","t",".","t","x","t">>

Q1 == <<"q","1">>

Q2 == <<"q","2">>

Queries(f1, f2) == <<[name |-> Q1, ris_file |-> f1], [name |-> Q2, ris_file |-> f2]>>

InitCanon ==
  /\ ris_file = NoFile
  /\ papers = <<>>
  /\ parse_pc = "idle"
  /\ \E rs \in SeqsUpTo(CanonRecords, MaxPapers) :
     \E f2 \in { File(Q2Name, <<>>),
                 File(Q2Name, <<RecordText(<<"t","4">>, <<>>, <<"c","T">>)>>),
                 File(Q2Name, <<RecordText(<<"t","7">>, <<>>, <<>>),
                                RecordText(<<"t","2">>, <<>>, <<"C","T">>)>>) } :
       queries = Queries(File(Q1Name, rs), f2)
  /\ most_cited_file \in
       { NoFile, File(CitedName, <<RecordText(<<"T","1">>, <<>>, <<"C","T",",","m","r">>)>>) }
  /\ most_relevant_file = NoFile
  /\ InitCalculator
  /\ NotBuilt
  /\ NotServing

InitMatch ==
  /\ ris_file = NoFile
  /\ papers = <<>>
  /\ parse_pc = "idle"
  /\ \E rs \in SeqsUpTo(MatchRecords, MaxPapers) :
       queries = Queries(File(Q1Name, rs),
                         File(Q2Name, <<RecordText(<<"a","B">>, <<"d","2">>, <<"c","t">>)>>))
  /\ \E cs \in SeqsUpTo(CuratedRecords, MaxCurated) :
       most_cited_file = File(CitedName, cs)
  /\ most_relevant_file \in
       { NoFile,
         File(RelevantName, <<RecordText(<<"X">>, <<"d","2">>, <<"M","R",",","c","t">>)>>),
         File(RelevantName, SkippedThenFiled) }
  /\ InitCalculator
  /\ NotBuilt
  /\ NotServing

\* records of the query files of the graph builds: tagged papers, papers
\* without tags, a tag whose label takes two lines
Beta == <<"B","e","t","a">>

AlphaBeta == <<"a","l","p","h","a",","," ","B","e","t","a">>

LongTag == <<"b","c","d"," ","t","a","g"," ","w","i","t","h"," ","a"," ","l","a","b","e","l"," ","o","f"," ","t","w","o"," ","l","i","n","e","s">>

\* the reserved key written as a tag of a curated record
Uncategorized == <<"U","n","c","a","t","e","g","o","r","i","z","e","d">>

GraphRecords ==
  { RecordText(<<"g","1">>, <<>>, Beta),
    RecordText(<<"g","2">>, <<>>, <<>>),
    RecordText(<<"g","3">>, <<>>, AlphaBeta),
    RecordText(<<"g","4">>, <<>>, LongTag) }

\* curated records that agree with those papers by title
GraphCurated ==
  { RecordText(<<"G","1">>, <<>>, Beta),
    RecordText(<<"g","2">>, <<>>, AlphaBeta),
    RecordText(<<"g","2">>, <<>>, Uncategorized) }

\* curated files of two records: twice the same paper; papers of two
\* databases
TwiceTheSame == <<RecordText(<<"g","1">>, <<>>, Beta), RecordText(<<"G","1">>, <<>>, Beta)>>

OfTwoDatabases == <<RecordText(<<"g","1">>, <<>>, Beta), RecordText(<<"k","1">>, <<>>, Beta)>>

Q3Name == <<"a","x","_","c",".","t","x","t">>

Q3 == <<"q","3">>

NlpQuery == <<"N","L","P","_","E","x","t","r","a","c","t","i","o","n">>

InitGraph ==
  /\ ris_file = NoFile
  /\ papers = <<>>
  /\ parse_pc = "idle"
  /\ \E f1 \in {NoFile} \cup {File(Q1Name, rs) : rs \in SeqsUpTo(GraphRecords, MaxPapers)} :
     \E q2 \in { [name |-> Q2, ris_file |-> NoFile],
                 [name |-> Q2, ris_file |-> File(Q2Name, <<RecordText(<<"h","1">>, <<>>, <<>>)>>)],
                 [name |-> Q2, ris_file |-> File(Q2Name, <<RecordText(<<"h","3">>, <<>>, UNCATEGORIZED)>>)],
                 [name |-> NlpQuery,
                  ris_file |-> File(Q2Name, <<RecordText(<<"h","1">>, <<>>, <<>>),
                                              RecordText(<<"h","2">>, <<>>, Beta)>>)] } :
     \E f3 \in { NoFile, File(Q3Name, <<RecordText(<<"k","1">>, <<>>, Beta)>>) } :
       queries = <<[name |-> Q1, ris_file |-> f1], q2, [name |-> Q3, ris_file |-> f3]>>
  /\ most_cited_file \in
       {NoFile, File(CitedName, TwiceTheSame), File(CitedName, OfTwoDatabases)}
       \cup {File(CitedName, <<c>>) : c \in GraphCurated}
  /\ most_relevant_file \in {NoFile, File(RelevantName, TwiceTheSame)}
  /\ InitCalculator
  /\ NotBuilt
  /\ NotServing

\* OverlapCalculator.load_papers_from_queries
LoadPapersFromQueries ==
  /\ calc_pc = "new"
  /\ LET papers_by_query == PapersByQuery(queries, 1)
     IN  /\ all_papers' = Flatten([i \in 1..Len(papers_by_query) |-> papers_by_query[i].v])
         /\ papers_by_query_and_branch' = OrganizeAll(papers_by_query)
         /\ databases' = {ExtractDatabaseFromFilename(queries[i].ris_file.name) :
                            i \in {j \in 1..Len(queries) : queries[j].ris_file # NoFile}}
  /\ calc_pc' = "loaded"
  /\ UNCHANGED <<appVars, parserVars, inputVars, graphVars,
                 most_cited_by_query_and_branch, most_relevant_by_query_and_branch>>

\* OverlapCalculator.load_most_cited_papers; load_data calls it only when
\* some paper was parsed
LoadMostCitedPapers ==
  /\ calc_pc = "loaded"
  /\ all_papers # <<>>
  /\ most_cited_by_query_and_branch' =
       IF most_cited_file = NoFile THEN most_cited_by_query_and_branch
       ELSE ProcessAllCurated(
              Parse(most_cited_file.name, most_cited_file.bytes, Len(queries) + 1),
              all_papers, papers_by_query_and_branch, most_cited_by_query_and_branch)
  /\ calc_pc' = "cited"
  /\ UNCHANGED <<appVars, parserVars, inputVars, graphVars, all_papers, papers_by_query_and_branch,
                 databases, most_relevant_by_query_and_branch>>

\* OverlapCalculator.load_most_relevant_papers
LoadMostRelevantPapers ==
  /\ calc_pc = "cited"
  /\ most_relevant_by_query_and_branch' =
       IF most_relevant_file = NoFile THEN most_relevant_by_query_and_branch
       ELSE ProcessAllCurated(
              Parse(most_relevant_file.name, most_relevant_file.bytes, Len(queries) + 2),
              all_papers, papers_by_query_and_branch, most_relevant_by_query_and_branch)
  /\ calc_pc' = "relevant"
  /\ UNCHANGED <<appVars, parserVars, inputVars, graphVars, all_papers, papers_by_query_and_branch,
                 databases, most_cited_by_query_and_branch>>

\* the three maps of the calculator get_visualization_data reads
Self ==
  [papers_by_query_and_branch |-> papers_by_query_and_branch,
   most_cited_by_query_and_branch |-> most_cited_by_query_and_branch,
   most_relevant_by_query_and_branch |-> most_relevant_by_query_and_branch]

\* OverlapCalculator.build_hierarchy: load_data calls it after the two
\* overlays were loaded; on a calculator that loaded no paper it is called
\* right after load_papers_from_queries
BuildHierarchy ==
  /\ calc_pc = "relevant" \/ (calc_pc = "loaded" /\ all_papers = <<>>)
  /\ hierarchy' = BuildHierarchyOf(queries, papers_by_query_and_branch)
  /\ calc_pc' = "built"
  /\ UNCHANGED <<appVars, parserVars, inputVars, nodes, edges, all_papers,
                 papers_by_query_and_branch, databases,
                 most_cited_by_query_and_branch, most_relevant_by_query_and_branch>>

\* OverlapCalculator.get_visualization_data(hierarchy)
GetVisualizationData ==
  /\ calc_pc = "built"
  /\ \E g \in {GetVisualizationDataOf(Self, hierarchy)} :
       /\ nodes' = g.nodes
       /\ edges' = g.edges
  /\ calc_pc' = "drawn"
  /\ UNCHANGED <<appVars, parserVars, inputVars, hierarchy, all_papers,
                 papers_by_query_and_branch, databases,
                 most_cited_by_query_and_branch, most_relevant_by_query_and_branch>>

NextCalc ==
  \/ LoadPapersFromQueries
  \/ LoadMostCitedPapers
  \/ LoadMostRelevantPapers
  \/ BuildHierarchy
  \/ GetVisualizationData

SpecCanon == InitCanon /\ [][NextCalc]_vars

SpecGraph == InitGraph /\ [][NextCalc]_vars

SpecMatch == InitMatch /\ [][NextCalc]_vars

(***************************************************************************)
(* The service: app.py around the calculator                               *)
(***************************************************************************)
Pubmed == <<"p","u","b","m","e","d">>

\* config.COMMON_SEARCH_TERMS: the name and the file prefix of every query
COMMON_SEARCH_TERMS == <<[name |-> NlpQuery, prefix |-> Pubmed]>>

DotTxt == <<".","t","x","t">>

EndsWith(s, suffix) ==
  Len(s) >= Len(suffix) /\ SubSeq(s, Len(s) - Len(suffix) + 1, Len(s)) = suffix

\* source_folder.glob(f"{prefix}*.txt")
Globs(name, prefix) ==
  /\ Len(name) >= Len(prefix) + Len(DotTxt)
  /\ StartsWith(name, prefix)
  /\ EndsWith(name, DotTxt)

\* a file of the source folder; access tells what open() does with it:
\* "ok", "denied" (PermissionError) or "gone" (removed since it was listed)
FolderFile(name, records, access) ==
  [name |-> name, bytes |-> FileBytes(records), access |-> access]

NoEntry == [name |-> <<>>, bytes |-> <<>>, access |-> "ok"]

\* config.find_newest_ris_file_by_prefix; the files of the folder are
\* listed from the oldest to the newest
FindNewestRisFileByPrefix(folder, prefix) ==
  IF ~folder.exists THEN NoEntry
  ELSE LET matching_files == {i \in 1..Len(folder.files) : Globs(folder.files[i].name, prefix)}
       IN  IF matching_files = {} THEN NoEntry ELSE folder.files[MaxOf(matching_files)]

\* config.get_queries_with_ris_files, with the folder entry of every file
ResolvedEntries(folder) ==
  [i \in 1..Len(COMMON_SEARCH_TERMS) |->
     FindNewestRisFileByPrefix(folder, COMMON_SEARCH_TERMS[i].prefix)]

GetQueriesWithRisFiles(folder) ==
  [i \in 1..Len(COMMON_SEARCH_TERMS) |->
     [name |-> COMMON_SEARCH_TERMS[i].name,
      ris_file |-> [name |-> ResolvedEntries(folder)[i].name,
                    bytes |-> ResolvedEntries(folder)[i].bytes]]]

NoQueriesFound ==
  "No queries found. Check RIS_SOURCE_FOLDER path and COMMON_SEARCH_TERMS configuration."

NoPapersFound == "No papers found in RIS files. Check RIS file paths and content."

RisFileNotFound ==
  "RIS file not found: [Errno 2] No such file or directory: <path>. Check RIS_SOURCE_FOLDER path."

ErrorLoadingData == "Error loading data: [Errno 13] Permission denied: <path>"

\* len(_papers_cache) on None, get_visualization_data(None)
ErrorNoLen == "Error loading data: object of type 'NoneType' has no len()"

ErrorNoItems == "Error loading data: 'NoneType' object has no attribute 'items'"

\* what one run of the try block of load_data computes and how it ends:
\* "no_queries", "raised" (open() failed in load_papers_from_queries),
\* "no_papers" or "built"; self is the calculator the call holds
Outcome(stage, error, papers_found, hier, self) ==
  [stage |-> stage, error |-> error, papers |-> papers_found, hierarchy |-> hier,
   self |-> self, visualization |-> <<>>]

\* a curated file matched against the papers found: an overlay
OverlayOf(file, pass, found, by_query) ==
  IF file = NoFile THEN <<>>
  ELSE ProcessAllCurated(Parse(file.name, file.bytes, pass), found, by_query, <<>>)

CalculatorOf(by_query, most_cited, most_relevant) ==
  [papers_by_query_and_branch |-> by_query,
   most_cited_by_query_and_branch |-> most_cited,
   most_relevant_by_query_and_branch |-> most_relevant]

BuiltOutcome(found, hier, self) ==
  Outcome("built", NoError, found, hier, self)

\* load_data from `_papers_cache = calculator.all_papers` on
OutcomeOfLoaded(resolved_queries, cited, relevant, found, by_query) ==
  IF found = <<>>
  THEN Outcome("no_papers", Error(NoPapersFound, <<>>), <<>>, <<>>, <<>>)
  ELSE BuiltOutcome(found, BuildHierarchyOf(resolved_queries, by_query),
                    CalculatorOf(by_query,
                                 OverlayOf(cited, Len(resolved_queries) + 1, found, by_query),
                                 OverlayOf(relevant, Len(resolved_queries) + 2, found, by_query)))

OutcomeOfParsed(resolved_queries, cited, relevant, pbq) ==
  OutcomeOfLoaded(resolved_queries, cited, relevant,
                  Flatten([i \in 1..Len(pbq) |-> pbq[i].v]), OrganizeAll(pbq))

BuildOutcome(resolved_queries, cited, relevant) ==
  OutcomeOfParsed(resolved_queries, cited, relevant, PapersByQuery(resolved_queries, 1))

\* the exception open() raises for the entry
RaisedOutcome(entry) ==
  Outcome("raised",
          IF entry.access = "gone" THEN Error(RisFileNotFound, entry.name)
          ELSE Error(ErrorLoadingData, entry.name),
          <<>>, <<>>, <<>>)

Failing(entries) == {i \in 1..Len(entries) : entries[i].access # "ok"}

LoadOutcome(folder, cited, relevant) ==
  IF GetQueriesWithRisFiles(folder) = <<>>
  THEN Outcome("no_queries", Error(NoQueriesFound, <<>>), <<>>, <<>>, <<>>)
  ELSE IF Failing(ResolvedEntries(folder)) # {}
  THEN RaisedOutcome(ResolvedEntries(folder)[MinOf(Failing(ResolvedEntries(folder)))])
  ELSE BuildOutcome(GetQueriesWithRisFiles(folder), cited, relevant)

\* the outcome of the build the handlers of this behaviour run
ThisOutcome ==
  CHOOSE o \in {LoadOutcome(ris_source_folder, most_cited_file, most_relevant_file)} : TRUE

\* the routes that call load_data
Endpoints == {"papers", "visualization", "hierarchy", "pdf", "check_pdf", "reload"}

\* the paper ids asked for: the id of the paper of OnePaper, an unknown id
PaperIds == {<<"p","a","p","e","r","_","1">>, <<"x">>}

\* str(p.id)
StrOfId(id) ==
  CASE id.kind = "str" -> id.str
    [] id.kind = "int" -> IntToStr(id.num)
    [] OTHER -> <<"N","o","n","e">>

\* the first statement of the endpoint after its call of load_data
AfterLoadData(endpoint) ==
  IF endpoint \in {"pdf", "check_pdf"} THEN "find_paper" ELSE "read_error"

\* load_data returns to its caller; the call at startup is followed by no
\* statement that reads the globals
Returned(r) ==
  IF r.endpoint = "startup" THEN IdleHandler
  ELSE [r EXCEPT !.calculator = "none", !.pc = AfterLoadData(r.endpoint)]

\* an exception inside the try block: error_msg of `except Exception`
Raised(r, message) ==
  [r EXCEPT !.pc = "set_error", !.calculator = [@ EXCEPT !.error = Error(message, <<>>)]]

\* `if _papers_cache is not None: return`, `if _load_error is not None: return`
AlreadyLoaded == _papers_cache.set

\* a service that does not latch the error of a failed load
AlreadyFailed_NotLatched == FALSE

AlreadyFailed == _load_error.set

Busy == {h \in Handlers : handler[h].pc # "idle"}

\* load_data() of `if __name__ == '__main__'` and of the launcher: it runs
\* before the server takes requests
Startup(h) ==
  /\ \A g \in Handlers : handler[g] = IdleHandler
  /\ ColdCaches
  /\ build_attempts = 0
  /\ handler' = [handler EXCEPT ![h] = [IdleHandler EXCEPT !.pc = "check_papers",
                                                           !.endpoint = "startup"]]
  /\ UNCHANGED <<parserVars, inputVars, calcVars, graphVars, ris_source_folder, cacheVars,
                 workers, build_attempts>>

\* a request arrives and a free handler takes it
Request(h) ==
  /\ handler[h].pc = "idle"
  /\ Cardinality(Busy) < workers
  /\ \E endpoint \in Endpoints, paper_id \in PaperIds \cup {NoPaperId} :
       /\ (paper_id # NoPaperId) <=> (endpoint \in {"pdf", "check_pdf"})
       /\ handler' = [handler EXCEPT ![h] =
                        [pc |-> IF endpoint = "reload" THEN "clear_papers" ELSE "check_papers",
                         endpoint |-> endpoint, paper_id |-> paper_id,
                         response |-> "none", calculator |-> "none"]]
  /\ UNCHANGED <<parserVars, inputVars, calcVars, graphVars, ris_source_folder, cacheVars,
                 workers, build_attempts>>

\* reload_data: the four assignments of None, one at a time
Clear(h) ==
  /\ handler[h].pc \in {"clear_papers", "clear_hierarchy", "clear_visualization", "clear_error"}
  /\ _papers_cache' = IF handler[h].pc = "clear_papers" THEN None ELSE _papers_cache
  /\ _hierarchy_cache' = IF handler[h].pc = "clear_hierarchy" THEN None ELSE _hierarchy_cache
  /\ _visualization_cache' =
       IF handler[h].pc = "clear_visualization" THEN None ELSE _visualization_cache
  /\ _load_error' = IF handler[h].pc = "clear_error" THEN NoError ELSE _load_error
  /\ build_attempts' = IF handler[h].pc = "clear_papers" THEN 0 ELSE build_attempts
  /\ handler' = [handler EXCEPT ![h].pc =
                   CASE handler[h].pc = "clear_papers" -> "clear_hierarchy"
                     [] handler[h].pc = "clear_hierarchy" -> "clear_visualization"
                     [] handler[h].pc = "clear_visualization" -> "clear_error"
                     [] handler[h].pc = "clear_error" -> "check_papers"]
  /\ UNCHANGED <<parserVars, inputVars, calcVars, graphVars, ris_source_folder, workers>>

\* load_data: if _papers_cache is not None: return
CheckPapers(h) ==
  /\ handler[h].pc = "check_papers"
  /\ handler' = [handler EXCEPT ![h] =
                   IF AlreadyLoaded THEN Returned(@) ELSE [@ EXCEPT !.pc = "check_error"]]
  /\ UNCHANGED <<parserVars, inputVars, calcVars, graphVars, ris_source_folder, cacheVars,
                 workers, build_attempts>>

\* load_data: if _load_error is not None: return
CheckError(h) ==
  /\ handler[h].pc = "check_error"
  /\ handler' = [handler EXCEPT ![h] =
                   IF AlreadyFailed THEN Returned(@) ELSE [@ EXCEPT !.pc = "build"]]
  /\ UNCHANGED <<parserVars, inputVars, calcVars, graphVars, ris_source_folder, cacheVars,
                 workers, build_attempts>>

\* load_data: the queries are resolved and the calculator loads the papers;
\* what it computed is local to the call until it is assigned
Build(h) ==
  /\ handler[h].pc = "build"
  /\ build_attempts' = build_attempts + 1
  /\ handler' = [handler EXCEPT ![h] =
                   [@ EXCEPT !.calculator = ThisOutcome,
                             !.pc = IF ThisOutcome.stage \in {"no_queries", "raised"}
                                    THEN "set_error" ELSE "publish_papers"]]
  /\ UNCHANGED <<parserVars, inputVars, calcVars, graphVars, ris_source_folder, cacheVars,
                 workers>>

\* load_data: _papers_cache = calculator.all_papers
PublishPapers(h) ==
  /\ handler[h].pc = "publish_papers"
  /\ _papers_cache' = Some(handler[h].calculator.papers)
  /\ handler' = [handler EXCEPT ![h].pc = "log_papers"]
  /\ UNCHANGED <<parserVars, inputVars, calcVars, graphVars, ris_source_folder,
                 _hierarchy_cache, _visualization_cache, _load_error, workers, build_attempts>>

\* load_data: print(f"Parsed {len(_papers_cache)} ..."), the global is read
LogPapers(h) ==
  /\ handler[h].pc = "log_papers"
  /\ handler' = [handler EXCEPT ![h] =
                   IF _papers_cache.set THEN [@ EXCEPT !.pc = "check_empty"]
                   ELSE Raised(@, ErrorNoLen)]
  /\ UNCHANGED <<parserVars, inputVars, calcVars, graphVars, ris_source_folder, cacheVars,
                 workers, build_attempts>>

\* load_data: if len(_papers_cache) == 0, the global is read again; the
\* curated files are then loaded into the calculator of the call
CheckEmpty(h) ==
  /\ handler[h].pc = "check_empty"
  /\ handler' = [handler EXCEPT ![h] =
                   IF ~_papers_cache.set THEN Raised(@, ErrorNoLen)
                   ELSE IF Len(_papers_cache.value) = 0 THEN Raised(@, NoPapersFound)
                   ELSE [@ EXCEPT !.pc = "publish_hierarchy"]]
  /\ UNCHANGED <<parserVars, inputVars, calcVars, graphVars, ris_source_folder, cacheVars,
                 workers, build_attempts>>

\* load_data: _load_error = error_msg, then it returns
SetError(h) ==
  /\ handler[h].pc = "set_error"
  /\ _load_error' = handler[h].calculator.error
  /\ handler' = [handler EXCEPT ![h] = Returned(@)]
  /\ UNCHANGED <<parserVars, inputVars, calcVars, graphVars, ris_source_folder,
                 _papers_cache, _hierarchy_cache, _visualization_cache, workers, build_attempts>>

\* load_data: _hierarchy_cache = calculator.build_hierarchy()
PublishHierarchy(h) ==
  /\ handler[h].pc = "publish_hierarchy"
  /\ _hierarchy_cache' = Some(handler[h].calculator.hierarchy)
  /\ handler' = [handler EXCEPT ![h].pc = "compute_visualization"]
  /\ UNCHANGED <<parserVars, inputVars, calcVars, graphVars, ris_source_folder,
                 _papers_cache, _visualization_cache, _load_error, workers, build_attempts>>

\* load_data: calculator.get_visualization_data(_hierarchy_cache): the
\* global is read and the graph is computed, None has no items()
ComputeVisualization(h) ==
  /\ handler[h].pc = "compute_visualization"
  /\ handler' = [handler EXCEPT ![h] =
                   IF _hierarchy_cache.set
                   THEN [@ EXCEPT !.pc = "publish_visualization",
                                  !.calculator =
                                    [@ EXCEPT !.visualization =
                                       GetVisualizationDataOf(handler[h].calculator.self,
                                                              _hierarchy_cache.value)]]
                   ELSE Raised(@, ErrorNoItems)]
  /\ UNCHANGED <<parserVars, inputVars, calcVars, graphVars, ris_source_folder, cacheVars,
                 workers, build_attempts>>

\* load_data: _visualization_cache = the graph computed, then it returns
PublishVisualization(h) ==
  /\ handler[h].pc = "publish_visualization"
  /\ _visualization_cache' = Some(handler[h].calculator.visualization)
  /\ handler' = [handler EXCEPT ![h] = Returned(@)]
  /\ UNCHANGED <<parserVars, inputVars, calcVars, graphVars, ris_source_folder,
                 _papers_cache, _hierarchy_cache, _load_error, workers, build_attempts>>

\* get_papers, get_visualization, get_hierarchy, reload_data: if _load_error
ReadError(h) ==
  /\ handler[h].pc = "read_error"
  /\ handler' = [handler EXCEPT ![h] =
                   IF _load_error.set THEN [@ EXCEPT !.pc = "report_error"]
                   ELSE IF handler[h].endpoint = "reload"
                   THEN [@ EXCEPT !.pc = "idle", !.response = "200 reloaded"]
                   ELSE [@ EXCEPT !.pc = "read_cache"]]
  /\ UNCHANGED <<parserVars, inputVars, calcVars, graphVars, ris_source_folder, cacheVars,
                 workers, build_attempts>>

\* return jsonify({"error": _load_error}), 500: the global is read again and
\* is null when a reload has cleared it since the test
ReportError(h) ==
  /\ handler[h].pc = "report_error"
  /\ handler' = [handler EXCEPT ![h] =
                   [@ EXCEPT !.pc = "idle",
                             !.response =
                               IF handler[h].endpoint = "reload"
                               THEN IF _load_error.set THEN "500 reload failed"
                                    ELSE "500 reload failed null"
                               ELSE IF _load_error.set THEN "500 error"
                                    ELSE "500 error null"]]
  /\ UNCHANGED <<parserVars, inputVars, calcVars, graphVars, ris_source_folder, cacheVars,
                 workers, build_attempts>>

\* the cache the endpoint serves
CacheOf(endpoint) ==
  CASE endpoint = "visualization" -> _visualization_cache
    [] endpoint = "hierarchy" -> _hierarchy_cache
    [] OTHER -> _papers_cache

\* get_papers, get_visualization, get_hierarchy: if the cache is None, 500
\* "Data not loaded"
ReadCache(h) ==
  /\ handler[h].pc = "read_cache"
  /\ handler' = [handler EXCEPT ![h] =
                   IF CacheOf(handler[h].endpoint).set THEN [@ EXCEPT !.pc = "use_cache"]
                   ELSE [@ EXCEPT !.pc = "idle", !.response = "500 Data not loaded"]]
  /\ UNCHANGED <<parserVars, inputVars, calcVars, graphVars, ris_source_folder, cacheVars,
                 workers, build_attempts>>

\* get_papers: _papers_cache.copy(), an AttributeError on None;
\* get_visualization, get_hierarchy: jsonify of the cache, null on None
UseCache(h) ==
  /\ handler[h].pc = "use_cache"
  /\ handler' = [handler EXCEPT ![h] =
                   [@ EXCEPT !.pc = "idle",
                             !.response =
                               IF CacheOf(handler[h].endpoint).set THEN "200"
                               ELSE IF handler[h].endpoint = "papers" THEN "AttributeError"
                               ELSE "200 null"]]
  /\ UNCHANGED <<parserVars, inputVars, calcVars, graphVars, ris_source_folder, cacheVars,
                 workers, build_attempts>>

\* the papers of the cache with the id asked for
PapersOfId(papers_cached, paper_id) ==
  {i \in 1..Len(papers_cached) : StrOfId(papers_cached[i].id) = paper_id}

\* the response of get_pdf and of check_pdf once the loop has run; serving a
\* paper that has a pdf_path is left to the resolver
PdfResponse(endpoint, papers_cached, paper_id) ==
  IF PapersOfId(papers_cached, paper_id) = {}
  THEN IF endpoint = "pdf" THEN "404 PDF not found" ELSE "404 Paper not found"
  ELSE IF papers_cached[MinOf(PapersOfId(papers_cached, paper_id))].pdf_path = <<>>
  THEN IF endpoint = "pdf" THEN "404 PDF not found" ELSE "200 No PDF path in record"
  ELSE "resolver"

\* get_pdf, check_pdf: for p in _papers_cache, a TypeError on None
FindPaper(h) ==
  /\ handler[h].pc = "find_paper"
  /\ handler' = [handler EXCEPT ![h] =
                   [@ EXCEPT !.pc = "idle",
                             !.response =
                               IF _papers_cache.set
                               THEN PdfResponse(handler[h].endpoint, _papers_cache.value,
                                                handler[h].paper_id)
                               ELSE "TypeError"]]
  /\ UNCHANGED <<parserVars, inputVars, calcVars, graphVars, ris_source_folder, cacheVars,
                 workers, build_attempts>>

NextApp ==
  \E h \in Handlers :
    \/ Startup(h)
    \/ Request(h)
    \/ Clear(h)
    \/ CheckPapers(h)
    \/ CheckError(h)
    \/ Build(h)
    \/ PublishPapers(h)
    \/ LogPapers(h)
    \/ CheckEmpty(h)
    \/ SetError(h)
    \/ PublishHierarchy(h)
    \/ ComputeVisualization(h)
    \/ PublishVisualization(h)
    \/ ReadError(h)
    \/ ReportError(h)
    \/ ReadCache(h)
    \/ UseCache(h)
    \/ FindPaper(h)

PubmedA == <<"p","u","b","m","e","d","_","a",".","t","x","t">>

PubmedB == <<"p","u","b","m","e","d","_","b",".","t","x","t">>

ArxivA == <<"a","r","x","i","v","_","a",".","t","x","t">>

\* an export of one paper, an export without a titled record
OnePaper == <<RecordText(<<"g","1">>, <<>>, Beta)>>

NoTitledRecord == <<<<FieldLine(<<"R","N">>, Beta), ERLine>>>>

\* the source folder: missing; empty; without a file of the prefix; with a
\* file that holds no paper; with a file of one paper; with an older file
\* of one paper and a newer one without; with a file that cannot be read
SourceFolders ==
  { [exists |-> FALSE, files |-> <<>>],
    [exists |-> TRUE, files |-> <<>>],
    [exists |-> TRUE, files |-> <<FolderFile(ArxivA, OnePaper, "ok")>>],
    [exists |-> TRUE, files |-> <<FolderFile(PubmedA, NoTitledRecord, "ok")>>],
    [exists |-> TRUE, files |-> <<FolderFile(PubmedA, OnePaper, "ok")>>],
    [exists |-> TRUE, files |-> <<FolderFile(PubmedA, OnePaper, "ok"),
                                  FolderFile(PubmedB, NoTitledRecord, "ok")>>],
    [exists |-> TRUE, files |-> <<FolderFile(PubmedA, OnePaper, "denied")>>],
    [exists |-> TRUE, files |-> <<FolderFile(PubmedA, OnePaper, "gone")>>] }

\* the service after import, serving with the given number of workers
InitApp(n) ==
  /\ ris_file = NoFile
  /\ papers = <<>>
  /\ parse_pc = "idle"
  /\ queries = <<>>
  /\ most_cited_file \in {NoFile, File(CitedName, <<RecordText(<<"G","1">>, <<>>, Beta)>>)}
  /\ most_relevant_file = NoFile
  /\ InitCalculator
  /\ NotBuilt
  /\ ris_source_folder \in SourceFolders
  /\ ColdCaches
  /\ workers = n
  /\ handler = [h \in Handlers |-> IdleHandler]
  /\ build_attempts = 0

\* requests are served one after another
InitService == InitApp(1)

\* two requests are served at a time
InitRace == InitApp(2)

SpecService == InitService /\ [][NextApp]_vars

SpecRace == InitRace /\ [][NextApp]_vars

(***************************************************************************)
(* Reading a file line by line, independently of the parser's loops        *)
(***************************************************************************)
TextLines(text) == Split(text, "\n")

\* the text made of the given lines, every line ended by "\n"
LinesText(lines) == Flatten([i \in 1..Len(lines) |-> Append(lines[i], "\n")])

\* "ER", whitespace, "-", then nothing but whitespace
IsTerminatorLine(line) ==
  /\ Len(line) >= 4
  /\ line[1] = "E" /\ line[2] = "R"
  /\ \E a \in 3..(Len(line) - 1) :
       /\ \A k \in 3..a : IsSpace(line[k])
       /\ line[a + 1] = "-"
       /\ \A k \in (a + 2)..Len(line) : IsSpace(line[k])

\* "ER" followed by nothing but whitespace
IsBareERLine(line) ==
  /\ Len(line) >= 2
  /\ line[1] = "E" /\ line[2] = "R"
  /\ \A k \in 3..Len(line) : IsSpace(line[k])

NonEmptyLine(line) == line # <<>>

\* the right-stripped lines of a record
RecLines(rec) ==
  LET ls == Split(Strip(rec), "\n") IN [i \in 1..Len(ls) |-> RStrip(ls[i])]

\* the positions of the lines of a record that open a field with the given tag
FieldIdx(rec, tag) == {i \in 1..Len(RecLines(rec)) : FieldMatch(RecLines(rec)[i]).tag = tag}

\* the value of the field opened at line i: its own text and the non-blank
\* lines up to the next field line, joined by newlines and stripped
ValueAt(rec, i) ==
  LET ls == RecLines(rec)
      F == {j \in (i + 1)..Len(ls) : FieldMatch(ls[j]).tag # <<>>}
      nxt == IF F = {} THEN Len(ls) + 1 ELSE MinOf(F)
  IN  Strip(Join(<<FieldMatch(ls[i]).value>>
                 \o SelectSeq(SubSeq(ls, i + 1, nxt - 1), NonEmptyLine), "\n"))

Records == SplitRecords(ReadText(ris_file.bytes))

\* the records that have a TI field
Titled == {k \in 1..Len(Records) : FieldIdx(Records[k], TI) # {}}

\* the record a returned paper was built from
RecordOf(paper) == Records[paper.oid[2]]

NoOid(ps) == [i \in 1..Len(ps) |-> [f \in (DOMAIN ps[i]) \ {"oid"} |-> ps[i][f]]]

NoOidId(ps) == [i \in 1..Len(ps) |-> [f \in (DOMAIN ps[i]) \ {"oid", "id"} |-> ps[i][f]]]

\* the file without its k-th record
DropRecord(k) ==
  Flatten([j \in 1..(Len(Records) - 1) |->
             (IF j < k THEN Records[j] ELSE Records[j + 1]) \o ERLine])

(***************************************************************************)
(* C1: parse returns exactly one Paper per record that has a TI value, in  *)
(* file order, each with that (non-empty) title; a record without a title  *)
(* is dropped and the papers returned are those of the file without it.    *)
(***************************************************************************)
C1_OnePaperPerTitledRecord ==
  parse_pc = "done" =>
    /\ \A i \in 1..Len(papers) : papers[i].title # <<>>
    /\ Len(papers) = Cardinality(Titled)
    /\ \A i \in 1..Len(papers) :
         /\ papers[i].oid[2] \in Titled
         /\ papers[i].title =
              ValueAt(RecordOf(papers[i]), MaxOf(FieldIdx(RecordOf(papers[i]), TI)))
    /\ \A i, j \in 1..Len(papers) : i < j => papers[i].oid[2] < papers[j].oid[2]
    /\ \A k \in (1..Len(Records)) \ Titled :
         NoOid(Parse(ris_file.name, DropRecord(k), 0)) = NoOid(papers)

\* three records of which one has no title: two papers
C1_Witness ==
  /\ parse_pc = "done"
  /\ Cardinality({k \in 1..Len(Records) : Strip(Records[k]) # <<>>}) = 3
  /\ Cardinality(Titled) = 2
  /\ Len(papers) = 2

(***************************************************************************)
(* C2: a closing line splits the file: the papers of the file are the      *)
(* papers of the text before the line followed by those of the text after  *)
(* it (identifiers aside, the fallback counter restarts)                   *)
(***************************************************************************)
SplitsAt(i) ==
  LET ls == TextLines(ReadText(ris_file.bytes))
  IN  NoOidId(papers) =
        NoOidId(Parse(ris_file.name, LinesText(SubSeq(ls, 1, i - 1)), 0))
        \o NoOidId(Parse(ris_file.name, LinesText(SubSeq(ls, i + 1, Len(ls))), 0))

\* C2 as stated: a line "ER" followed only by whitespace ends the record
C2_BareERTerminates ==
  parse_pc = "done" =>
    \A i \in 1..Len(TextLines(ReadText(ris_file.bytes))) :
      IsBareERLine(TextLines(ReadText(ris_file.bytes))[i]) => SplitsAt(i)

\* C2 amended: a line "ER", whitespace, "-", optional trailing whitespace ends
\* the record: fields before and after it never end up in one Paper
C2_DashERTerminates ==
  parse_pc = "done" =>
    \A i \in 1..Len(TextLines(ReadText(ris_file.bytes))) :
      IsTerminatorLine(TextLines(ReadText(ris_file.bytes))[i]) => SplitsAt(i)

C2_Witness ==
  /\ parse_pc = "done"
  /\ \E i \in 1..Len(TextLines(ReadText(ris_file.bytes))) :
       LET ls == TextLines(ReadText(ris_file.bytes))
       IN  /\ IsTerminatorLine(ls[i])
           /\ Parse(ris_file.name, LinesText(SubSeq(ls, 1, i - 1)), 0) # <<>>
           /\ Parse(ris_file.name, LinesText(SubSeq(ls, i + 1, Len(ls))), 0) # <<>>
           /\ Len(papers) >= 2

(***************************************************************************)
(* C3: the identifier of a retained record is its ID value when it has an  *)
(* ID field, else its LB value when it has an LB field, else paper_<n>     *)
(***************************************************************************)
IsFallbackId(v) ==
  /\ v.kind = "str"
  /\ \E n \in 1..(MaxRecords + 1) : v = FallbackId(n)

C3_IdTakesPriority ==
  parse_pc = "done" =>
    \A i \in 1..Len(papers) :
      LET rec == RecordOf(papers[i])
          ids == FieldIdx(rec, <<"I","D">>)
          lbs == FieldIdx(rec, <<"L","B">>)
      IN  IF ids # {} THEN papers[i].id = IntOrStr(ValueAt(rec, MaxOf(ids)))
          ELSE IF lbs # {} THEN papers[i].id \in {IntOrStr(ValueAt(rec, j)) : j \in lbs}
          ELSE IsFallbackId(papers[i].id)

(***************************************************************************)
(* C4: no two Papers of one parse pass have the same identifier            *)
(***************************************************************************)
C4_IdsUnique ==
  parse_pc = "done" =>
    \A i, j \in 1..Len(papers) : i # j => papers[i].id # papers[j].id

(***************************************************************************)
(* The tags of a query as a stream, independently of the two passes        *)
(***************************************************************************)
Loaded == calc_pc # "new"

Ct == <<"C","t">>

CT == <<"C","T">>

\* the papers parsed for the q-th query, in parse order
QueryPapers(q) ==
  LET OfQuery(p) == p.oid[1] = q IN SelectSeq(all_papers, OfQuery)

\* the branch terms of the q-th query in the order they are met
Stream(q) == Flatten([i \in 1..Len(QueryPapers(q)) |-> QueryPapers(q)[i].branch_terms])

\* papers_by_query_and_branch[query name]
Buckets(q) == DictGetOr(papers_by_query_and_branch, queries[q].name, <<>>)

\* among the terms of the stream equal to t after lowercasing: the first of
\* those with the most uppercase characters
RefCanonical(q, t) ==
  LET st == Stream(q)
      Same == {i \in 1..Len(st) : StrLower(st[i]) = StrLower(t)}
      Most == {i \in Same : \A j \in Same : UpperCount(st[j]) <= UpperCount(st[i])}
  IN  st[MinOf(Most)]

RECURSIVE Ascending(_)
Ascending(I) == IF I = {} THEN <<>> ELSE <<MinOf(I)>> \o Ascending(I \ {MinOf(I)})

\* the distinct variants of the lowercased term n, in first-seen order
VariantsSeen(q, n) ==
  LET st == Stream(q)
      First == {i \in 1..Len(st) : StrLower(st[i]) = n /\ \A j \in 1..(i - 1) : st[j] # st[i]}
  IN  [k \in 1..Cardinality(First) |-> st[Ascending(First)[k]]]

Count(x, seq) == Cardinality({i \in 1..Len(seq) : seq[i] = x})

Oids(ps) == [i \in 1..Len(ps) |-> ps[i].oid]

(***************************************************************************)
(* C5: every paper is filed, for each of its tags, under the variant of    *)
(* that tag with the most uppercase characters, the first seen of those    *)
(* in the query's stream; and no other key exists (but "uncategorized"     *)
(* for the papers without tags)                                            *)
(***************************************************************************)
C5_CanonicalIsFirstMostUpper ==
  Loaded =>
    \A q \in 1..Len(queries) :
      /\ \A i \in 1..Len(QueryPapers(q)) :
           \A j \in 1..Len(QueryPapers(q)[i].branch_terms) :
             LET key == RefCanonical(q, QueryPapers(q)[i].branch_terms[j])
             IN  /\ DictHas(Buckets(q), key)
                 /\ InSeq(QueryPapers(q)[i], DictGet(Buckets(q), key))
      /\ \A b \in 1..Len(Buckets(q)) :
           \/ \E j \in 1..Len(Stream(q)) : Buckets(q)[b].k = RefCanonical(q, Stream(q)[j])
           \/ /\ Buckets(q)[b].k = UNCATEGORIZED
              /\ \E i \in 1..Len(QueryPapers(q)) : QueryPapers(q)[i].branch_terms = <<>>

\* the variants ct, CT, Ct in that order give CT; the tie cT, Ct gives cT
C5_Witness ==
  /\ Loaded
  /\ \/ /\ VariantsSeen(1, <<"c","t">>) = << <<"c","t">>, CT, Ct >>
        /\ DictHas(Buckets(1), CT)
     \/ /\ VariantsSeen(1, <<"c","t">>) = << <<"c","T">>, Ct >>
        /\ DictHas(Buckets(1), <<"c","T">>)

(***************************************************************************)
(* C6: the variants Ct then CT                                             *)
(***************************************************************************)
\* C6 as stated: the first seen, Ct, is the key
C6_CtThenCT_GivesCt ==
  Loaded =>
    \A q \in 1..Len(queries) :
      VariantsSeen(q, <<"c","t">>) = <<Ct, CT>> =>
        DictHas(Buckets(q), Ct) /\ ~DictHas(Buckets(q), CT)

\* C6 amended: CT has more uppercase characters than Ct, there is no tie,
\* and CT is the key
C6_CtThenCT_GivesCT ==
  Loaded =>
    \A q \in 1..Len(queries) :
      VariantsSeen(q, <<"c","t">>) = <<Ct, CT>> =>
        /\ DictHas(Buckets(q), CT)
        /\ ~DictHas(Buckets(q), Ct)
        /\ \A i \in 1..Len(QueryPapers(q)) :
             (\E j \in 1..Len(QueryPapers(q)[i].branch_terms) :
                StrLower(QueryPapers(q)[i].branch_terms[j]) = <<"c","t">>)
             => InSeq(QueryPapers(q)[i], DictGet(Buckets(q), CT))

C6_Witness ==
  /\ Loaded
  /\ VariantsSeen(1, <<"c","t">>) = <<Ct, CT>>
  /\ Len(DictGet(Buckets(1), CT)) = 2

(***************************************************************************)
(* C7: rewriting every tag of a query to its canonical form and running    *)
(* both passes again maps every tag to itself and gives the same keys in   *)
(* the same order with the same papers                                     *)
(***************************************************************************)
\* the papers with their branch terms replaced by the canonical forms
Rewritten(ps) ==
  LET canonical == CanonicalTermMap(CollectVariants(ps, <<>>))
  IN  [i \in 1..Len(ps) |->
         [ps[i] EXCEPT !.branch_terms =
            [j \in 1..Len(ps[i].branch_terms) |->
               DictGet(canonical, StrLower(ps[i].branch_terms[j]))]]]

C7_CanonicalizationIdempotent ==
  Loaded =>
    \A q \in 1..Len(queries) :
      \A rew \in {Rewritten(QueryPapers(q))} :
        \A again \in {CanonicalTermMap(CollectVariants(rew, <<>>))} :
          /\ \A i \in 1..Len(rew) :
               \A j \in 1..Len(rew[i].branch_terms) :
                 DictGet(again, StrLower(rew[i].branch_terms[j])) = rew[i].branch_terms[j]
          /\ \A buckets \in {Organize(rew, again, <<>>)} :
               /\ DictKeys(buckets) = DictKeys(Buckets(q))
               /\ \A b \in 1..Len(buckets) : Oids(buckets[b].v) = Oids(Buckets(q)[b].v)

\* a query whose papers carry two variants of one tag, so that the rewrite
\* changes some paper
C7_Witness ==
  /\ Loaded
  /\ Len(VariantsSeen(1, <<"c","t">>)) >= 2
  /\ Rewritten(QueryPapers(1)) # QueryPapers(1)
  /\ Len(Buckets(1)) >= 1

(***************************************************************************)
(* C8: per query, the papers carrying a variant of a tag are all in the    *)
(* one bucket keyed by its canonical form, and no two bucket keys are      *)
(* equal after lowercasing                                                 *)
(***************************************************************************)
C8_OneBucketPerLowercasedTag ==
  Loaded =>
    \A q \in 1..Len(queries) :
      /\ \A a, b \in 1..Len(Buckets(q)) :
           a # b => StrLower(Buckets(q)[a].k) # StrLower(Buckets(q)[b].k)
      /\ \A i \in 1..Len(QueryPapers(q)) :
           \A j \in 1..Len(QueryPapers(q)[i].branch_terms) :
             \A b \in 1..Len(Buckets(q)) :
               (/\ StrLower(Buckets(q)[b].k) = StrLower(QueryPapers(q)[i].branch_terms[j])
                /\ InSeq(QueryPapers(q)[i], Buckets(q)[b].v))
               => Buckets(q)[b].k = RefCanonical(q, QueryPapers(q)[i].branch_terms[j])

(***************************************************************************)
(* C9: a paper with k >= 1 tags occurs k times in the buckets of its       *)
(* query, once per tag entry under the canonical key of that entry; a      *)
(* paper without tags occurs once, under "uncategorized"; buckets keep     *)
(* parse order; no paper occurs in the buckets of another query            *)
(***************************************************************************)
TotalCount(p, buckets) ==
  Len(Flatten([b \in 1..Len(buckets) |->
                 SelectSeq(buckets[b].v, LAMBDA x : x = p)]))

C9_OncePerTag ==
  Loaded =>
    \A q \in 1..Len(queries) :
      /\ \A i \in 1..Len(QueryPapers(q)) :
           LET p == QueryPapers(q)[i]
           IN  /\ p.branch_terms = <<>> =>
                    /\ TotalCount(p, Buckets(q)) = 1
                    /\ DictHas(Buckets(q), UNCATEGORIZED)
                    /\ Count(p, DictGet(Buckets(q), UNCATEGORIZED)) = 1
               /\ p.branch_terms # <<>> =>
                    /\ TotalCount(p, Buckets(q)) = Len(p.branch_terms)
                    /\ \A b \in 1..Len(Buckets(q)) :
                         Count(p, Buckets(q)[b].v) =
                           Cardinality({j \in 1..Len(p.branch_terms) :
                                          RefCanonical(q, p.branch_terms[j]) = Buckets(q)[b].k})
               /\ \A r \in (1..Len(queries)) \ {q} : TotalCount(p, Buckets(r)) = 0
      /\ \A b \in 1..Len(Buckets(q)) :
           \A x, y \in 1..Len(Buckets(q)[b].v) :
             x < y => Buckets(q)[b].v[x].oid[2] <= Buckets(q)[b].v[y].oid[2]

\* a paper with two tags next to a paper without tags
C9_Witness ==
  /\ Loaded
  /\ \E i, j \in 1..Len(QueryPapers(1)) :
       /\ Len(QueryPapers(1)[i].branch_terms) = 2
       /\ TotalCount(QueryPapers(1)[i], Buckets(1)) = 2
       /\ QueryPapers(1)[j].branch_terms = <<>>
       /\ InSeq(QueryPapers(1)[j], DictGet(Buckets(1), UNCATEGORIZED))

(***************************************************************************)
(* C10: _match_paper returns the earliest paper of all_papers whose        *)
(* normalized title equals the item's (both non-empty) or whose normalized *)
(* DOI equals the item's (both non-empty), and None when there is none     *)
(***************************************************************************)
Matched == calc_pc \in {"cited", "relevant"}

\* the papers of a curated file, parsed in the given pass
CuratedItems(file, pass) ==
  IF file = NoFile THEN <<>> ELSE Parse(file.name, file.bytes, pass)

TitleAgrees(item, p) ==
  /\ Strip(StrLower(item.title)) # <<>>
  /\ Strip(StrLower(p.title)) # <<>>
  /\ Strip(StrLower(item.title)) = Strip(StrLower(p.title))

DoiAgrees(item, p) ==
  /\ Strip(StrLower(item.doi)) # <<>>
  /\ Strip(StrLower(p.doi)) # <<>>
  /\ Strip(StrLower(item.doi)) = Strip(StrLower(p.doi))

EarliestAgreeing(item) ==
  LET I == {i \in 1..Len(all_papers) :
              TitleAgrees(item, all_papers[i]) \/ DoiAgrees(item, all_papers[i])}
  IN  IF I = {} THEN <<>> ELSE <<all_papers[MinOf(I)]>>

C10_MatchIsEarliest ==
  Matched =>
    \A items \in {CuratedItems(most_cited_file, Len(queries) + 1)
                  \o CuratedItems(most_relevant_file, Len(queries) + 2)} :
      \A k \in 1..Len(items) :
        MatchPaper(items[k], all_papers) = EarliestAgreeing(items[k])

\* an item whose DOI agrees with an earlier paper of another title and whose
\* title agrees with a later paper: the earlier paper is returned
C10_Witness ==
  /\ Matched
  /\ \E items \in {CuratedItems(most_cited_file, Len(queries) + 1)} :
       \E k \in 1..Len(items) :
         \E i, j \in 1..Len(all_papers) :
           /\ i < j
           /\ DoiAgrees(items[k], all_papers[i])
           /\ ~TitleAgrees(items[k], all_papers[i])
           /\ TitleAgrees(items[k], all_papers[j])
           /\ MatchPaper(items[k], all_papers) = <<all_papers[i]>>
           /\ DictHas(most_cited_by_query_and_branch, Q1)
           /\ InSeq(all_papers[i],
                    Flatten([b \in 1..Len(DictGet(most_cited_by_query_and_branch, Q1)) |->
                               DictGet(most_cited_by_query_and_branch, Q1)[b].v]))

(***************************************************************************)
(* Placement of a curated item, independently of the loops of              *)
(* load_most_cited_papers                                                  *)
(***************************************************************************)
\* the first bucket key of the q-th query equal to the tag after lowercasing
ResolvedKey(q, tag) ==
  Buckets(q)[MinOf({b \in 1..Len(Buckets(q)) :
                      StrLower(Buckets(q)[b].k) = StrLower(tag)})].k

\* the positions, in the item's tag list, of the tags that resolve to a
\* bucket key of the q-th query
ResolvedTags(q, item) ==
  {i \in 1..Len(item.branch_terms) :
     \E b \in 1..Len(Buckets(q)) :
       StrLower(Buckets(q)[b].k) = StrLower(item.branch_terms[i])}

BaseCount(q, tag) == Len(DictGet(Buckets(q), ResolvedKey(q, tag)))

\* the query of a parsed paper: the position of the query whose file it
\* was parsed from
QueryOf(p) == p.oid[1]

\* <<[q, key, paper]>> for the one bucket the item is filed into, <<>> when
\* it is filed nowhere
RefPlacement(item) ==
  LET m == EarliestAgreeing(item)
  IN  IF m = <<>> THEN <<>>
      ELSE LET q == QueryOf(m[1])
               R == ResolvedTags(q, item)
               Fewest == {i \in R : \A j \in R :
                            BaseCount(q, item.branch_terms[i])
                              <= BaseCount(q, item.branch_terms[j])}
           IN  IF R = {} THEN <<>>
               ELSE <<[q |-> queries[q].name,
                       key |-> ResolvedKey(q, item.branch_terms[MinOf(Fewest)]),
                       paper |-> m[1]]>>

RefPlacements(items) == Flatten([k \in 1..Len(items) |-> RefPlacement(items[k])])

\* overlay[q][key], empty when there is no such entry
OverlayBucket(overlay, q, key) == DictGetOr(DictGetOr(overlay, q, <<>>), key, <<>>)

OverlayKeys(overlay) ==
  UNION {{<<overlay[i].k, overlay[i].v[b].k>> : b \in 1..Len(overlay[i].v)} :
           i \in 1..Len(overlay)}

\* the overlay holds the placements and nothing else: every bucket is the
\* sequence of the papers placed there, in the order of the curated items
OverlayIs(overlay, placements) ==
  /\ \A k \in 1..Len(placements) :
       <<placements[k].q, placements[k].key>> \in OverlayKeys(overlay)
  /\ \A qk \in OverlayKeys(overlay) :
       OverlayBucket(overlay, qk[1], qk[2]) =
         LET There(x) == x.q = qk[1] /\ x.key = qk[2]
             sel == SelectSeq(placements, There)
         IN  [k \in 1..Len(sel) |-> sel[k].paper]

CitedItems == CuratedItems(most_cited_file, Len(queries) + 1)

RelevantItems == CuratedItems(most_relevant_file, Len(queries) + 2)

(***************************************************************************)
(* C11: a matched curated item with a tag that resolves is filed into      *)
(* exactly one overlay bucket of the matched paper's query: the bucket of  *)
(* the resolved tag whose base bucket holds the fewest papers, the first   *)
(* such tag of the item's list on a tie; also for a match by DOI only      *)
(***************************************************************************)
C11_FiledUnderFewest ==
  /\ Matched =>
       \A items \in {CitedItems} :
         OverlayIs(most_cited_by_query_and_branch, RefPlacements(items))
  /\ calc_pc = "relevant" =>
       \A items \in {RelevantItems} :
         OverlayIs(most_relevant_by_query_and_branch, RefPlacements(items))

\* an item matched by DOI only, two of whose tags resolve to buckets of the
\* same size: the paper is filed under the first of them, and nowhere else
C11_Witness ==
  /\ Matched
  /\ \E items \in {CitedItems} :
       \E k \in 1..Len(items) :
         \E m \in {EarliestAgreeing(items[k])} :
           /\ m # <<>>
           /\ ~TitleAgrees(items[k], m[1])
           /\ DoiAgrees(items[k], m[1])
           /\ Len(items[k].branch_terms) = 2
           /\ ResolvedTags(QueryOf(m[1]), items[k]) = {1, 2}
           /\ ResolvedKey(QueryOf(m[1]), items[k].branch_terms[1])
                # ResolvedKey(QueryOf(m[1]), items[k].branch_terms[2])
           /\ BaseCount(QueryOf(m[1]), items[k].branch_terms[1])
                = BaseCount(QueryOf(m[1]), items[k].branch_terms[2])
           /\ InSeq(m[1], OverlayBucket(most_cited_by_query_and_branch,
                                        queries[QueryOf(m[1])].name,
                                        ResolvedKey(QueryOf(m[1]), items[k].branch_terms[1])))
           /\ ~InSeq(m[1], OverlayBucket(most_cited_by_query_and_branch,
                                         queries[QueryOf(m[1])].name,
                                         ResolvedKey(QueryOf(m[1]), items[k].branch_terms[2])))

(***************************************************************************)
(* C12: a curated item that agrees with no paper, or has no tags, or none  *)
(* of whose tags names a bucket of the matched paper's query, leaves an    *)
(* overlay map as it is, and the items after it are processed as if it     *)
(* were not in the file; processing one curated file never touches the     *)
(* other overlay map                                                       *)
(***************************************************************************)
Unmatched(item) == EarliestAgreeing(item) = <<>>

Untagged(item) == ~Unmatched(item) /\ item.branch_terms = <<>>

Unresolved(item) ==
  /\ ~Unmatched(item)
  /\ item.branch_terms # <<>>
  /\ ResolvedTags(QueryOf(EarliestAgreeing(item)[1]), item) = {}

Skipped(item) == Unmatched(item) \/ Untagged(item) \/ Unresolved(item)

Without(items, k) == [i \in 1..(Len(items) - 1) |-> IF i < k THEN items[i] ELSE items[i + 1]]

SkippedLeaves(items, overlay) ==
  \A k \in 1..Len(items) :
    Skipped(items[k]) =>
      /\ \A o \in {<<>>, most_cited_by_query_and_branch, most_relevant_by_query_and_branch} :
           ProcessCurated(items[k], all_papers, papers_by_query_and_branch, o) = o
      /\ overlay = ProcessAllCurated(Without(items, k), all_papers,
                                     papers_by_query_and_branch, <<>>)

C12_SkippedItemsChangeNothing ==
  /\ calc_pc \in {"new", "loaded"} =>
       most_cited_by_query_and_branch = <<>> /\ most_relevant_by_query_and_branch = <<>>
  /\ calc_pc = "cited" => most_relevant_by_query_and_branch = <<>>
  /\ Matched =>
       \A items \in {CitedItems} : SkippedLeaves(items, most_cited_by_query_and_branch)
  /\ calc_pc = "relevant" =>
       \A items \in {RelevantItems} : SkippedLeaves(items, most_relevant_by_query_and_branch)

\* a curated file of an item no paper agrees with, an item without tags, an
\* item whose tag names no bucket and an item that is filed: the overlay
\* holds the paper of the last item and nothing else
C12_Witness ==
  /\ calc_pc = "relevant"
  /\ \E items \in {RelevantItems} :
       /\ Len(items) = 4
       /\ Unmatched(items[1])
       /\ Untagged(items[2])
       /\ Unresolved(items[3])
       /\ ~Skipped(items[4])
       /\ Len(most_relevant_by_query_and_branch) = 1
       /\ Len(most_relevant_by_query_and_branch[1].v) = 1
       /\ most_relevant_by_query_and_branch[1].v[1].v = EarliestAgreeing(items[4])

(***************************************************************************)
(* Reading the graph: the kinds of nodes, and the collection a node        *)
(* belongs to (the nodes of a collection follow its collection node)       *)
(***************************************************************************)
Drawn == calc_pc = "drawn"

IsUncategorizedNode(n) == n.type = "database" /\ n.data.flag = "is_uncategorized"

IsCollectionNode(n) == n.type = "database" /\ n.data.flag # "is_uncategorized"

IsQueryNode(n) == n.type = "query"

IsTagNode(n) == n.type = "branchTerm"

IsCuratedHighlightNode(n) == n.type = "overlapGroup" /\ n.data.flag = "none"

IsAggregateHighlightNode(n) == n.type = "overlapGroup" /\ n.data.flag = "is_most_cited_aggregate"

IsAggregateRelevantNode(n) == n.type = "overlapGroup" /\ n.data.flag = "is_most_relevant_aggregate"

CollectionNodes == {c \in 1..Len(nodes) : IsCollectionNode(nodes[c])}

\* the position of the collection node of the i-th node
CollectionOf(i) == MaxOf({c \in CollectionNodes : c <= i})

CuratedHighlightNodesOf(c) ==
  {i \in 1..Len(nodes) : IsCuratedHighlightNode(nodes[i]) /\ CollectionOf(i) = c}

UncategorizedNodesOf(c) ==
  {i \in 1..Len(nodes) : IsUncategorizedNode(nodes[i]) /\ CollectionOf(i) = c}

AggregateHighlightNodesOf(c) ==
  {i \in 1..Len(nodes) : IsAggregateHighlightNode(nodes[i]) /\ CollectionOf(i) = c}

AggregateRelevantNodesOf(c) ==
  {i \in 1..Len(nodes) : IsAggregateRelevantNode(nodes[i]) /\ CollectionOf(i) = c}

\* the queries of a collection: those whose file name starts with its name
QueriesOfCollection(name) ==
  {q \in 1..Len(queries) :
     /\ queries[q].ris_file # NoFile
     /\ ExtractDatabaseFromFilename(queries[q].ris_file.name) = name}

\* the papers a map holds for the q-th query, bucket after bucket
PapersIn(map, q) ==
  LET buckets == DictGetOr(map, queries[q].name, <<>>)
  IN  Flatten([b \in 1..Len(buckets) |-> buckets[b].v])

HasHighlightData(name) ==
  \E q \in QueriesOfCollection(name) : PapersIn(most_cited_by_query_and_branch, q) # <<>>

HasRelevanceData(name) ==
  \E q \in QueriesOfCollection(name) : PapersIn(most_relevant_by_query_and_branch, q) # <<>>

NonNull(v) == v.kind # "none"

(***************************************************************************)
(* C13: the payload of an aggregate-highlight or aggregate-relevant node   *)
(* holds no two papers with the same non-null identifier                   *)
(***************************************************************************)
C13_AggregatePayloadIdsDistinct ==
  Drawn =>
    \A i \in 1..Len(nodes) :
      (IsAggregateHighlightNode(nodes[i]) \/ IsAggregateRelevantNode(nodes[i])) =>
        \A a, b \in 1..Len(nodes[i].data.papers) :
          (a # b /\ NonNull(nodes[i].data.papers[a].id)) =>
            nodes[i].data.papers[a].id # nodes[i].data.papers[b].id

\* a relevance overlay bucket that holds a paper twice, a paper that is in a
\* curated-highlight node and in the uncategorized node, and aggregate
\* nodes that hold each of them once
C13_Witness ==
  /\ Drawn
  /\ \E q \in 1..Len(queries) :
       \E x, y \in 1..Len(PapersIn(most_relevant_by_query_and_branch, q)) :
         /\ x # y
         /\ PapersIn(most_relevant_by_query_and_branch, q)[x]
              = PapersIn(most_relevant_by_query_and_branch, q)[y]
  /\ \E i \in 1..Len(nodes) :
       IsAggregateRelevantNode(nodes[i]) /\ nodes[i].data.paper_count = 1
  /\ \E c \in CollectionNodes :
       \E g \in CuratedHighlightNodesOf(c) :
         \E u \in UncategorizedNodesOf(c) :
           \E o \in AggregateHighlightNodesOf(c) :
             \E a \in 1..Len(nodes[g].data.papers) :
               /\ InSeq(nodes[g].data.papers[a], nodes[u].data.papers)
               /\ Count(nodes[g].data.papers[a], nodes[o].data.papers) = 1

(***************************************************************************)
(* C14: a paper without tags is exactly once in the payload of the         *)
(* aggregate-highlight node of its collection, whenever the collection     *)
(* has highlight-overlay data                                              *)
(***************************************************************************)
C14_UntaggedOnceInAggregate ==
  Drawn =>
    \A c \in CollectionNodes :
      HasHighlightData(nodes[c].data.database) =>
        \A q \in QueriesOfCollection(nodes[c].data.database) :
          \A k \in 1..Len(QueryPapers(q)) :
            QueryPapers(q)[k].branch_terms = <<>> =>
              /\ Cardinality(AggregateHighlightNodesOf(c)) = 1
              /\ \A o \in AggregateHighlightNodesOf(c) :
                   Count(ToDict(QueryPapers(q)[k]), nodes[o].data.papers) = 1

(***************************************************************************)
(* C15: a collection none of whose queries has a highlight-overlay or a    *)
(* relevance-overlay entry has no curated-highlight node, no               *)
(* aggregate-highlight node and no aggregate-relevant node                 *)
(***************************************************************************)
C15_NoOverlayNoHighlightNodes ==
  Drawn =>
    \A c \in CollectionNodes :
      (~HasHighlightData(nodes[c].data.database) /\ ~HasRelevanceData(nodes[c].data.database)) =>
        /\ CuratedHighlightNodesOf(c) = {}
        /\ AggregateHighlightNodesOf(c) = {}
        /\ AggregateRelevantNodesOf(c) = {}

NoSourceFile == \A q \in 1..Len(queries) : queries[q].ris_file = NoFile

(***************************************************************************)
(* C16: when no query has a source file, build_hierarchy returns the       *)
(* empty mapping and get_visualization_data returns no node and no edge    *)
(***************************************************************************)
C16_EmptySourceEmptyGraph ==
  NoSourceFile =>
    /\ calc_pc \in {"built", "drawn"} => hierarchy = <<>>
    /\ Drawn => (nodes = <<>> /\ edges = <<>>)

\* both operations have run on a configuration without any source file,
\* while a curated file was there to load
C16_Witness ==
  /\ Drawn
  /\ NoSourceFile
  /\ most_cited_file # NoFile
  /\ hierarchy = <<>>
  /\ nodes = <<>>

\* the edges that end at the i-th node
EdgesInto(i) == {e \in 1..Len(edges) : edges[e].target = nodes[i].id}

(***************************************************************************)
(* C17: every edge that ends at an aggregate-relevant node starts at the   *)
(* aggregate-highlight node of the same collection                         *)
(***************************************************************************)
C17_RelevantFedByAggregateHighlightOnly ==
  Drawn =>
    \A i \in 1..Len(nodes) :
      IsAggregateRelevantNode(nodes[i]) =>
        \A e \in EdgesInto(i) :
          /\ \E o \in AggregateHighlightNodesOf(CollectionOf(i)) :
               edges[e].source = nodes[o].id
          /\ \A s \in 1..Len(nodes) :
               edges[e].source = nodes[s].id => IsAggregateHighlightNode(nodes[s])

\* a graph with an aggregate-relevant node that has its edge, and with
\* tag, curated-highlight and uncategorized nodes in the same collection
C17_Witness ==
  /\ Drawn
  /\ \E i \in 1..Len(nodes) :
       /\ IsAggregateRelevantNode(nodes[i])
       /\ Cardinality(EdgesInto(i)) = 1
       /\ CuratedHighlightNodesOf(CollectionOf(i)) # {}
       /\ UncategorizedNodesOf(CollectionOf(i)) # {}
       /\ \E t \in 1..Len(nodes) : IsTagNode(nodes[t]) /\ CollectionOf(t) = CollectionOf(i)

(***************************************************************************)
(* C18: the edges that end at the aggregate-highlight node of a collection *)
(* are one from each curated-highlight node of the collection and one from *)
(* its uncategorized node when there is one, and no other                  *)
(***************************************************************************)
C18_AggregateHighlightInEdges ==
  Drawn =>
    \A c \in CollectionNodes :
      \A o \in AggregateHighlightNodesOf(c) :
        LET sources == CuratedHighlightNodesOf(c) \cup UncategorizedNodesOf(c)
        IN  /\ \A e \in EdgesInto(o) : \E s \in sources : edges[e].source = nodes[s].id
            /\ \A s \in sources :
                 Cardinality({e \in EdgesInto(o) : edges[e].source = nodes[s].id}) = 1
            /\ Cardinality(EdgesInto(o)) = Cardinality(sources)

\* two collections with an aggregate-highlight node each, one of them fed
\* by a curated-highlight node and by the uncategorized node
C18_Witness ==
  /\ Drawn
  /\ \E c, d \in CollectionNodes :
       /\ c # d
       /\ AggregateHighlightNodesOf(c) # {}
       /\ AggregateHighlightNodesOf(d) # {}
       /\ CuratedHighlightNodesOf(c) # {}
       /\ CuratedHighlightNodesOf(d) # {}
       /\ UncategorizedNodesOf(c) # {}
       /\ \A o \in AggregateHighlightNodesOf(c) : Cardinality(EdgesInto(o)) = 2

\* the tag nodes of the query of that name, in the order of the node list
TagNodesOf(query_name) ==
  {i \in 1..Len(nodes) : IsTagNode(nodes[i]) /\ nodes[i].data.query_name = query_name}

\* the bucket keys of a query of the hierarchy that are not `uncategorized`
TagKeys(buckets) == {buckets[b].k : b \in 1..Len(buckets)} \ {UNCATEGORIZED}

\* a <= b on the lowercased texts
LowerNotAfter(a, b) == ~StrLess(StrLower(b), StrLower(a))

(***************************************************************************)
(* C19: a query has one tag node per bucket key other than                 *)
(* `uncategorized`, each with one incoming edge, from the node of the      *)
(* query; the tag nodes come, and are stacked downwards, in ascending      *)
(* order of their lowercased tag                                           *)
(***************************************************************************)
C19_TagNodesPerQuery ==
  Drawn =>
    \A d \in 1..Len(hierarchy) :
      \A q \in 1..Len(hierarchy[d].v) :
        LET query_name == hierarchy[d].v[q].k
            keys == TagKeys(hierarchy[d].v[q].v)
            tags == TagNodesOf(query_name)
        IN  /\ \A key \in keys :
                 Cardinality({i \in tags : nodes[i].data.branch_term = key}) = 1
            /\ \A i \in tags : nodes[i].data.branch_term \in keys
            /\ \A i \in tags :
                 /\ Cardinality(EdgesInto(i)) = 1
                 /\ \A e \in EdgesInto(i) :
                      \E s \in 1..Len(nodes) :
                        /\ IsQueryNode(nodes[s])
                        /\ nodes[s].data.query_name = query_name
                        /\ edges[e].source = nodes[s].id
            /\ \A i, j \in tags :
                 i < j =>
                   /\ LowerNotAfter(nodes[i].data.branch_term, nodes[j].data.branch_term)
                   /\ nodes[i].position.y_halves < nodes[j].position.y_halves

\* a query whose buckets were made in the order Beta, alpha and whose tag
\* nodes come in the order alpha, Beta, beside a bucket `uncategorized`
\* in the same collection
C19_Witness ==
  /\ Drawn
  /\ \E d \in 1..Len(hierarchy) :
       /\ \E q \in 1..Len(hierarchy[d].v) :
            \E a, b \in 1..Len(hierarchy[d].v[q].v) :
              /\ a < b
              /\ hierarchy[d].v[q].v[a].k = Beta
              /\ StrLess(StrLower(hierarchy[d].v[q].v[b].k), StrLower(Beta))
              /\ Cardinality(TagNodesOf(hierarchy[d].v[q].k)) = 2
       /\ \E q \in 1..Len(hierarchy[d].v) :
            \E a \in 1..Len(hierarchy[d].v[q].v) : hierarchy[d].v[q].v[a].k = UNCATEGORIZED

\* the next letter of the alphabet, in the same case; any other character
\* is kept
NextLetter(c) ==
  IF c \in LowerSet THEN Lower[(IndexOf(Lower, c) % Len(Lower)) + 1]
  ELSE IF c \in UpperSet THEN Upper[(IndexOf(Upper, c) % Len(Upper)) + 1]
  ELSE c

\* a text of the same length with other letters; the reserved key
\* `uncategorized` is part of the structure and is kept
Relabel(text) ==
  IF text = UNCATEGORIZED THEN text ELSE [i \in 1..Len(text) |-> NextLetter(text[i])]

\* a query -> tag -> papers map with its query names and tags relabelled
RelabelByQuery(map) ==
  [q \in 1..Len(map) |->
     [k |-> Relabel(map[q].k),
      v |-> [b \in 1..Len(map[q].v) |->
               [k |-> Relabel(map[q].v[b].k), v |-> map[q].v[b].v]]]]

\* the hierarchy and the calculator with every collection name, query
\* name and tag relabelled: same shape, same text lengths, other characters
RelabelHierarchy(hier) ==
  [d \in 1..Len(hier) |-> [k |-> Relabel(hier[d].k), v |-> RelabelByQuery(hier[d].v)]]

RelabelSelf(self) ==
  [papers_by_query_and_branch |-> RelabelByQuery(self.papers_by_query_and_branch),
   most_cited_by_query_and_branch |-> RelabelByQuery(self.most_cited_by_query_and_branch),
   most_relevant_by_query_and_branch |-> RelabelByQuery(self.most_relevant_by_query_and_branch)]

\* the two graphs have the same nodes in the same order, with labels of
\* the same lengths and the tags of the one relabelled in the other
SameShape(ns, ms) ==
  /\ Len(ns) = Len(ms)
  /\ \A i \in 1..Len(ns) :
       /\ ns[i].type = ms[i].type
       /\ ns[i].id = ms[i].id
       /\ Len(ns[i].data.label) = Len(ms[i].data.label)
       /\ ms[i].data.branch_term = Relabel(ns[i].data.branch_term)
       /\ ms[i].data.paper_count = ns[i].data.paper_count

(***************************************************************************)
(* C20: the positions of the nodes depend only on the shape of the         *)
(* hierarchy and of the overlays and on the lengths of the labels: the     *)
(* build on the relabelled hierarchy puts every node where the build on    *)
(* the hierarchy puts it; and the build on the same input gives the same   *)
(* graph                                                                   *)
(***************************************************************************)
C20_PositionsFromShapeAndLengths ==
  Drawn =>
    LET again == GetVisualizationDataOf(Self, hierarchy)
        other == GetVisualizationDataOf(RelabelSelf(Self), RelabelHierarchy(hierarchy))
    IN  /\ again.nodes = nodes
        /\ again.edges = edges
        /\ SameShape(nodes, other.nodes) =>
             \A i \in 1..Len(nodes) : other.nodes[i].position = nodes[i].position

\* the ids of the nodes of a node list, in the order of the list
NodeIds(ns) == [i \in 1..Len(ns) |-> ns[i].id]

\* the ids of a list that get_next_id made for the type, in the order of
\* the list
IdsOfType(ids, node_type) ==
  LET OfType(id) ==
        /\ Len(id) > Len(TypeText(node_type)) + 1
        /\ SubSeq(id, 1, Len(TypeText(node_type)) + 1) = TypeText(node_type) \o <<"_">>
  IN  SelectSeq(ids, OfType)

(***************************************************************************)
(* C22: in one build the node ids are pairwise distinct and are, for each  *)
(* type, <type>_1 .. <type>_k in the order of emission; a second build on  *)
(* the same calculator and hierarchy gives the same ids; the source and    *)
(* the target of every edge are ids of nodes of the build                  *)
(***************************************************************************)
C22_NodeIdsPerBuild ==
  Drawn =>
    LET ids == NodeIds(nodes)
        again == GetVisualizationDataOf(Self, hierarchy)
    IN  /\ \A i, j \in 1..Len(ids) : i # j => ids[i] # ids[j]
        /\ \A t \in NodeTypes :
             \A n \in 1..Len(IdsOfType(ids, t)) :
               IdsOfType(ids, t)[n] = TypeText(t) \o <<"_">> \o IntToStr(n)
        /\ SumSeq([i \in 1..Len(ids) |->
                     Cardinality({t \in NodeTypes : InSeq(ids[i], IdsOfType(ids, t))})])
             = Len(ids)
        /\ \A i \in 1..Len(ids) : \E t \in NodeTypes : InSeq(ids[i], IdsOfType(ids, t))
        /\ NodeIds(again.nodes) = ids
        /\ \A e \in 1..Len(edges) : InSeq(edges[e].source, ids) /\ InSeq(edges[e].target, ids)

\* a graph of two collections with two nodes of a type in each, an
\* aggregate-relevant node and edges
C22_Witness ==
  /\ Drawn
  /\ Cardinality(CollectionNodes) = 2
  /\ Len(IdsOfType(NodeIds(nodes), "query")) >= 2
  /\ Len(IdsOfType(NodeIds(nodes), "branch")) >= 2
  /\ Len(IdsOfType(NodeIds(nodes), "mostCitedAggregate")) = 2
  /\ \E i \in 1..Len(nodes) : IsAggregateRelevantNode(nodes[i]) /\ EdgesInto(i) # {}

\* the tag nodes of a query from top to bottom of the node list
TagNodeSeq(query_name) ==
  LET IsTagOfQuery(n) == IsTagNode(n) /\ n.data.query_name = query_name
  IN  SelectSeq(nodes, IsTagOfQuery)

\* h(t) = 80 + 25 * (len(label) div 25)
StatedHeight(n) == 80 + 25 * (Len(n.data.label) \div 25)

(***************************************************************************)
(* C23: the tag nodes t1..tn of a query, with heights                      *)
(* h(t) = 80 + 25 * (len(label) div 25) and T = sum of h + (n-1)*18, have  *)
(* y(t1) = query_y - T/2 and y(t(i+1)) - y(ti) = h(ti) + 18, so that the   *)
(* extents of two tag nodes of a query do not overlap                      *)
(***************************************************************************)
C23_TagStackCentred ==
  Drawn =>
    \A q \in 1..Len(nodes) :
      IsQueryNode(nodes[q]) =>
        LET t == TagNodeSeq(nodes[q].data.query_name)
            n == Len(t)
            T == SumSeq([i \in 1..n |-> StatedHeight(t[i])]) + (n - 1) * 18
        IN  n > 0 =>
              /\ t[1].position.y_halves = nodes[q].position.y_halves - T
              /\ \A i \in 1..(n - 1) :
                   t[i + 1].position.y_halves - t[i].position.y_halves
                     = 2 * (StatedHeight(t[i]) + 18)
              /\ \A i, j \in 1..n :
                   i < j => t[i].position.y_halves + 2 * StatedHeight(t[i])
                              <= t[j].position.y_halves

\* a query with two tag nodes, the first with a label of two lines, the
\* top of the stack at a half coordinate
C23_Witness ==
  /\ Drawn
  /\ \E q \in 1..Len(nodes) :
       /\ IsQueryNode(nodes[q])
       /\ Len(TagNodeSeq(nodes[q].data.query_name)) = 2
       /\ Len(TagNodeSeq(nodes[q].data.query_name)[1].data.label) >= 25
       /\ TagNodeSeq(nodes[q].data.query_name)[1].position.y_halves % 2 = 1

\* for every (query, tag) key of the overlay the tag is a bucket key of the
\* query, and every paper there is a parsed paper of a bucket of the query
WithinBase(overlay) ==
  \A qk \in OverlayKeys(overlay) :
    \E q \in 1..Len(queries) :
      /\ queries[q].name = qk[1]
      /\ \E b \in 1..Len(Buckets(q)) : Buckets(q)[b].k = qk[2]
      /\ \A x \in 1..Len(OverlayBucket(overlay, qk[1], qk[2])) :
           LET paper == OverlayBucket(overlay, qk[1], qk[2])[x]
           IN  /\ InSeq(paper, all_papers)
               /\ \E b \in 1..Len(Buckets(q)) : InSeq(paper, Buckets(q)[b].v)

\* the flat list and the base hierarchy as load_papers_from_queries left
\* them
BaseAsLoaded ==
  \A pbq \in {PapersByQuery(queries, 1)} :
    /\ all_papers = Flatten([i \in 1..Len(pbq) |-> pbq[i].v])
    /\ papers_by_query_and_branch = OrganizeAll(pbq)

(***************************************************************************)
(* C24: after the matcher ran, every (query, tag) key of either overlay    *)
(* has a tag that is a bucket key of the query in the base hierarchy, and  *)
(* every paper there is a paper of the flat parsed list that is in a base  *)
(* bucket of the query; the base hierarchy and the flat list are as they   *)
(* were before the matcher ran                                             *)
(***************************************************************************)
C24_OverlayWithinBase ==
  Loaded =>
    /\ WithinBase(most_cited_by_query_and_branch)
    /\ WithinBase(most_relevant_by_query_and_branch)
    /\ BaseAsLoaded

\* both matchers ran and filed a paper, one of them for a curated record
\* whose title is written otherwise than the title of the paper filed
C24_Witness ==
  /\ calc_pc = "relevant"
  /\ OverlayKeys(most_cited_by_query_and_branch) # {}
  /\ OverlayKeys(most_relevant_by_query_and_branch) # {}
  /\ \E qk \in OverlayKeys(most_cited_by_query_and_branch) :
       \E k \in 1..Len(CitedItems) :
         \E x \in 1..Len(OverlayBucket(most_cited_by_query_and_branch, qk[1], qk[2])) :
           LET paper == OverlayBucket(most_cited_by_query_and_branch, qk[1], qk[2])[x]
           IN  /\ TitleAgrees(CitedItems[k], paper)
               /\ CitedItems[k].title # paper.title

\* the identifiers of the papers of the payload of the i-th node
PayloadIds(i) == {nodes[i].data.papers[x].id : x \in 1..Len(nodes[i].data.papers)}

(***************************************************************************)
(* C26: the bucket `uncategorized` of a query holds only papers without    *)
(* tags, so that every paper with a tag is in the payload of a tag node of *)
(* its query                                                               *)
(***************************************************************************)
C26_UncategorizedHoldsUntaggedOnly ==
  /\ Loaded =>
       \A q \in 1..Len(queries) :
         \A x \in 1..Len(OverlayBucket(papers_by_query_and_branch, queries[q].name, UNCATEGORIZED)) :
           OverlayBucket(papers_by_query_and_branch, queries[q].name, UNCATEGORIZED)[x].branch_terms
             = <<>>
  /\ Drawn =>
       \A k \in 1..Len(all_papers) :
         all_papers[k].branch_terms # <<>> =>
           \E i \in TagNodesOf(queries[QueryOf(all_papers[k])].name) :
             InSeq(ToDict(all_papers[k]), nodes[i].data.papers)

(***************************************************************************)
(* C28: every paper filed into the highlight overlay of a query of a       *)
(* collection has its identifier in the payload of a curated-highlight     *)
(* node of the collection and in the payload of the aggregate-highlight    *)
(* node of the collection                                                  *)
(***************************************************************************)
C28_FiledHighlightIsRendered ==
  Drawn =>
    \A c \in CollectionNodes :
      \A q \in QueriesOfCollection(nodes[c].data.database) :
        \A x \in 1..Len(PapersIn(most_cited_by_query_and_branch, q)) :
          /\ \E g \in CuratedHighlightNodesOf(c) :
               PapersIn(most_cited_by_query_and_branch, q)[x].id \in PayloadIds(g)
          /\ \E o \in AggregateHighlightNodesOf(c) :
               PapersIn(most_cited_by_query_and_branch, q)[x].id \in PayloadIds(o)

(***************************************************************************)
(* C27: the deduplication by identifier drops no distinct paper: every     *)
(* paper of a curated-highlight node or of the uncategorized node of a     *)
(* collection is in the payload of its aggregate-highlight node, and every *)
(* paper of the relevance overlay of the collection is in the payload of   *)
(* its aggregate-relevant node                                             *)
(***************************************************************************)
C27_DedupeDropsNoDistinctPaper ==
  Drawn =>
    \A c \in CollectionNodes :
      /\ \A o \in AggregateHighlightNodesOf(c) :
           \A s \in CuratedHighlightNodesOf(c) \cup UncategorizedNodesOf(c) :
             \A x \in 1..Len(nodes[s].data.papers) :
               InSeq(nodes[s].data.papers[x], nodes[o].data.papers)
      /\ \A r \in AggregateRelevantNodesOf(c) :
           \A q \in QueriesOfCollection(nodes[c].data.database) :
             \A x \in 1..Len(PapersIn(most_relevant_by_query_and_branch, q)) :
               InSeq(ToDict(PapersIn(most_relevant_by_query_and_branch, q)[x]),
                     nodes[r].data.papers)

(***************************************************************************)
(* C29: a collection with an aggregate-relevant node has an                *)
(* aggregate-highlight node, and exactly one edge, from that node, ends at *)
(* the aggregate-relevant node                                             *)
(***************************************************************************)
C29_RelevantNodeNeverOrphan ==
  Drawn =>
    \A c \in CollectionNodes :
      \A r \in AggregateRelevantNodesOf(c) :
        /\ AggregateHighlightNodesOf(c) # {}
        /\ Cardinality(EdgesInto(r)) = 1
        /\ \A e \in EdgesInto(r) :
             \E o \in AggregateHighlightNodesOf(c) : edges[e].source = nodes[o].id

(***************************************************************************)
(* The service: what a load reports, how often it builds, what the        *)
(* handlers observe                                                        *)
(***************************************************************************)

\* the outcome a load reports: the error state, the message, the papers
ReportedOutcome(o) == <<o.error.set, o.error.message, o.papers>>

\* the source folders that exist and give zero results: no file matches the
\* prefix of a query, or the matching file yields no papers
ZeroResultFolders ==
  {f \in SourceFolders :
     f.exists /\ LoadOutcome(f, NoFile, NoFile).stage = "no_papers"}

\* C21: when the source directory does not exist, the outcome the load
\* reports (the error state and its message) differs from the outcome it
\* reports for every directory that exists and gives zero results
C21_MissingDirectoryDistinguishable ==
  (~ris_source_folder.exists /\ _load_error.set /\ Busy = {})
    => \A f \in ZeroResultFolders :
         <<_load_error.set, _load_error.message, _papers_cache.value>>
           # ReportedOutcome(LoadOutcome(f, NoFile, NoFile))

\* the positions of a handler inside a build, and inside the clearing of
\* reload_data
BuildingPcs == {"build", "publish_papers", "log_papers", "check_empty", "set_error",
                "publish_hierarchy", "compute_visualization", "publish_visualization"}

ClearingPcs == {"clear_papers", "clear_hierarchy", "clear_visualization", "clear_error"}

\* a load has populated _papers_cache or latched _load_error, and no handler
\* is inside a build or inside the clearing of a reload
Settled ==
  /\ AlreadyLoaded \/ AlreadyFailed
  /\ \A h \in Handlers : handler[h].pc \notin BuildingPcs \cup ClearingPcs

\* C25: requests served one after another: between two reloads there is at
\* most one build attempt; once a load has populated _papers_cache or latched
\* _load_error, every step of every further call leaves the four globals
\* and the number of attempts unchanged; the load of a reload_data has made
\* exactly one attempt when it returns
C25_OneBuildBetweenReloads ==
  /\ [](build_attempts <= 1)
  /\ [](\A h \in Handlers :
          (handler[h].endpoint = "reload" /\ handler[h].pc = "read_error")
            => build_attempts = 1)
  /\ [][Settled => (cacheVars' = cacheVars /\ build_attempts' = build_attempts)]_vars

\* two calls have returned on a latched error, the second one after the
\* error was latched, and one build was attempted
C25_Witness ==
  /\ Busy = {}
  /\ AlreadyFailed
  /\ \A h \in Handlers : handler[h].response \in {"500 error", "TypeError"}
  /\ build_attempts = 1

\* C30: with two handlers at a time on a cold cache, no handler whose
\* load_data has returned with _load_error unset finds the cache it serves
\* still None, and no endpoint iterates a cache that is None
C30_NoPartlyPublishedBuildObserved ==
  \A h \in Handlers : handler[h].response \notin {"500 Data not loaded", "TypeError"}

====
